---- MODULE Spec2Model ----
(***************************************************************************)
(* rustpkg build orchestration and install pipeline                        *)
(* (src/librustpkg/lib.rs) together with the libuv process handle the      *)
(* build-script runner waits on (src/librustuv/process.rs).                *)
(*                                                                         *)
(* One task executes one call of CtxMethods::build or CtxMethods::install  *)
(* on a package source; pc is that task's position in the code.  The       *)
(* children spawned by PkgScript::run_custom exit asynchronously through   *)
(* the on_exit callback.                                                   *)
(***************************************************************************)
EXTENDS Integers, Sequences, FiniteSets, TLC

(***************************************************************************)
(* Bounds of the model.                                                    *)
(***************************************************************************)
\* longest standard output (in characters) the `configs` child prints
MaxOut == 3
\* deepest nesting of build calls the model follows (the code needs 2)
MaxFrames == 3
\* most calls of install_no_build one caller makes in a row
MaxCalls == 2
\* most changes made to the build workspace and the sources between calls
MaxTouches == 2
\* most calls of wait the owner of one process handle makes
MaxWaits == 2

\* how many times the owner of a process handle calls kill
MaxKills == 1

(***************************************************************************)
(* Small input sets.                                                       *)
(***************************************************************************)
Workspaces == {"A", "B"}

\* RUST_PATH: never empty once main_args has called default_workspace()
RustPaths == {<<"A">>, <<"A", "B">>}

Chars == {"a", " "}

\* words are sequences of non-blank characters
WordA == <<"a">>
WordB == <<"b">>

\* the statically configured flags (--cfg / -c), kept in command-line order
CfgChoices == {<< >>, <<WordA>>, <<WordB, WordA>>}

\* file stems the role conventions of target.rs recognise
RoleStems == {"lib", "main", "test", "bench"}

\* relative paths a JustOne strategy may name (directory components, stem)
JustOnePaths ==
    {<<"lib">>, <<"main">>, <<"test">>, <<"bench">>, <<"tests", "unit">>}

NoPath == << >>

BuildTypes == {"MaybeCustom", "Inferred"}

SourcesChoices ==
    {[kind |-> "Everything", p |-> NoPath], [kind |-> "Tests", p |-> NoPath]}
        \cup {[kind |-> "JustOne", p |-> q] : q \in JustOnePaths}

\* the children the task runs: the package script's two commands (run_custom)
\* and the test executable (test)
Cmds == {"install", "configs", "test"}

\* raw values libuv hands to the exit callback
ExitCodes == {0, 1}
TermSignals == {0, 9}

None == [kind |-> "None", n |-> 0]

\* commands of run that build nothing: a stub (line 556) and one that
\* run does not know (line 418)
OtherCommands == {"info", "frobnicate"}

\* exit_codes::COPY_FAILED_CODE
COPY_FAILED_CODE == 65

(***************************************************************************)
(* Pure helpers.                                                           *)
(***************************************************************************)
\* path_util::in_rust_path: membership in the search path
in_rust_path(path, ws) == \E i \in 1..Len(path) : path[i] = ws

\* path_util::default_workspace: first entry of the search path
default_workspace(path) == path[1]

\* ProcessExit::success
success(st) == st = [kind |-> "ExitStatus", n |-> 0]

\* variant of exit_of: a nonzero exit status is reported before a signal
exit_of_status_first(code, sig) ==
    IF code # 0 \/ sig = 0 THEN [kind |-> "ExitStatus", n |-> code]
                           ELSE [kind |-> "ExitSignal", n |-> sig]

\* on_exit's mapping of (exit_status, term_signal) to a ProcessExit
exit_of(code, sig) ==
    IF sig = 0 THEN [kind |-> "ExitStatus", n |-> code]
               ELSE [kind |-> "ExitSignal", n |-> sig]

\* all sequences over S of length at most n
SeqsUpTo(S, n) == UNION {[1..k -> S] : k \in 0..n}

\* str::words: maximal runs of non-whitespace characters, in order
RECURSIVE words_from(_, _, _, _)
words_from(s, i, cur, acc) ==
    IF i > Len(s)
        THEN IF cur = << >> THEN acc ELSE Append(acc, cur)
        ELSE IF s[i] = " "
            THEN words_from(s, i + 1, << >>,
                            IF cur = << >> THEN acc ELSE Append(acc, cur))
            ELSE words_from(s, i + 1, Append(cur, s[i]), acc)

words(s) == words_from(s, 1, << >>, << >>)

\* Path::filestem of a relative path
filestem(p) == p[Len(p)]

\* target::is_lib / is_main / is_test / is_bench
is_lib(p) == filestem(p) = "lib"

is_main(p) == filestem(p) = "main"

is_test(p) == filestem(p) = "test"

is_bench(p) == filestem(p) = "bench"

\* Path::join: the components of dir followed by those of file
join(dir, file) == dir \o file

\* PkgSrc.start_dir: the package's directory under its workspace's src
start_dir(src) == <<src.source_workspace, "src", "pkg">>

\* PkgSrc::new: a source tree with empty crate lists
PkgSrc_new(src_ws, dst_ws) ==
    [source_workspace |-> src_ws, destination_workspace |-> dst_ws,
     libs |-> << >>, mains |-> << >>, tests |-> << >>, benchs |-> << >>]

\* the crates find_crates_with_filter pushes for one role, given the stems
\* present in the package directory
crates_of(found, stem) == IF stem \in found THEN << <<stem>> >> ELSE << >>

(***************************************************************************)
(* Files, fingerprints and the workcache record of one preparation.        *)
(***************************************************************************)
\* built_executable_in_workspace / built_library_in_workspace (610-611)
BuiltExe == <<"build", "pkg">>

BuiltLib == <<"build", "libpkg">>

\* target_executable_in_workspace / target_library_in_workspace (612-614)
TargetExe == <<"bin", "pkg">>

TargetLib == <<"lib", "libpkg">>

\* the crate files a package may hold
SourceFiles ==
    {join(start_dir([source_workspace |-> w]), <<st>>) :
        w \in Workspaces, st \in RoleStems}

FileNames == {BuiltExe, BuiltLib, TargetExe, TargetLib} \cup SourceFiles

Absent == [date |-> 0, content |-> 0]

\* a file system nobody has looked at yet
Unseen == << >>

\* the file systems a first look may find: the sources are there, nothing
\* is installed, and each built artifact is there or not
FirstViews ==
    {[f \in FileNames |->
        IF f \in SourceFiles \/ (f = BuiltExe /\ exe) \/ (f = BuiltLib /\ lib)
            THEN [date |-> 1, content |-> 0] ELSE Absent] :
     exe \in BOOLEAN, lib \in BOOLEAN}

views(fs) == IF fs = Unseen THEN FirstViews ELSE {fs}

file_exists(fs, f) == fs[f].date # 0

\* workcache_support::digest_only_date
digest_only_date(fs, f) == [how |-> "date", date |-> fs[f].date]

\* variant of digest_file_with_date: the date alone
digest_file_by_date(fs, f) == [how |-> "date", date |-> fs[f].date]

\* workcache_support::digest_file_with_date
digest_file_with_date(fs, f) ==
    [how |-> "hash+date", hash |-> fs[f].content, date |-> fs[f].date]

NoFp == [how |-> "none"]

\* one declared or discovered input or output: (kind, name, fingerprint)
item(kind, name, fp) == [kind |-> kind, name |-> name, fp |-> fp]

\* the preparation has no record yet
NoEntry ==
    [valid |-> FALSE, declared |-> << >>, discovered |-> << >>,
     outputs |-> << >>, result |-> << >>]

\* the freshness function of a kind: is the recorded fingerprint still
\* that of the file
fresh(fs, it) ==
    it.fp = IF it.kind = "binary" THEN digest_only_date(fs, it.name)
                                  ELSE digest_file_with_date(fs, it.name)

\* the engine's rule: a record of the same tag with identical declared and
\* discovered input fingerprints stands for the execution
cache_hit(entry, declared, fs) ==
    /\ entry.valid
    /\ entry.declared = declared
    /\ \A i \in 1..Len(entry.discovered) : fresh(fs, entry.discovered[i])

(***************************************************************************)
(* State.                                                                  *)
(***************************************************************************)
VARIABLES
    rust_path,      \* the search path (RUST_PATH)
    git_dirs,       \* workspaces w for which w/<pkgid.path> is a git directory
    context_cfgs,   \* self.context.cfgs
    what,           \* the WhatToBuild argument
    entry,          \* the operation the caller invoked
    exit_code,      \* what main_args returned: << >> until it has returned
    cmd_args,       \* the command's arguments: "pkgid" or "none"
    cwd,            \* os::getcwd(): a workspace, "crate_dir" or "elsewhere"
    path_hack,      \* self.context.use_rust_path_hack
    parents,        \* the workspaces of RUST_PATH that hold the package
    todo,           \* the workspaces build_args has still to visit
    built,          \* the PkgSrc build_args has called build with, in order
    dest_ws,        \* build_args' local dest_ws
    args_result,    \* what build_args returned: Pending before it has
    test_exec,      \* built_test_in_workspace: "unknown", "Some" or "None"
    reported,       \* the messages printed with error(), in order
    killed,         \* what the calls of Process::kill returned, in order
    pc,             \* position of the task
    err,            \* why the task failed ("" while it has not)
    frames,         \* the PkgSrc of every active build call, outermost first
    clones,         \* number of safe_git_clone calls made
    git_result,     \* what the last clone returned
    raised,         \* git_checkout_failed: "no", "handled" or "unhandled"
    handler_dir,    \* the directory a git_checkout_failed handler supplied
    read_only,      \* out_dir has been made read-only
    script,         \* package_script_option(): "unknown", "Some" or "None"
    script_built,   \* the preparation has produced the script's executable
    pkg_exe,        \* build's local pkg_exe: how the preparation produced it
    spawns,         \* per command, the children run_custom has spawned
    exit_args,      \* per child, the arguments of each call of on_exit
    returned,       \* per child, the statuses its wait calls have returned
    procs,          \* the Process handle of each run_custom child
    output,         \* standard output collected from the `configs` child
    status,         \* run_custom's local `status`: how `install` exited
    hook,           \* run_custom's result: (cfgs, status)
    custom,         \* build's local `custom`
    cfgs,           \* build's local `cfgs` (line 466..503)
    warned,         \* "Not building any crates for dependency" was printed
    existing,       \* crate files build looked for and found in start_dir
    compiled,       \* the pkg_src.build calls made: (crates, cfgs)
    inputs,         \* install's declared inputs
    install_calls,  \* number of install_no_build calls
    copied,         \* destinations of the fs::copy calls made, in order
    installed,      \* the list of installed files last returned
    files,          \* date and content of every file, once looked at
    db,             \* the workcache record of the install preparation
    calls,          \* what each install_no_build call saw and did
    touches         \* number of changes made to files between calls

vars == <<rust_path, git_dirs, context_cfgs, what, entry, exit_code, cmd_args,
          cwd, path_hack, parents, todo, built, dest_ws, args_result,
          test_exec, reported, killed, pc, err, frames, clones, git_result,
          raised, handler_dir, read_only, script, script_built, pkg_exe, spawns,
          exit_args, returned, procs, output, status, hook, custom, cfgs,
          warned, existing, compiled, inputs, install_calls, copied, installed,
          files, db, calls, touches>>

\* groups of variables, for the UNCHANGED clauses
\* the caller's side: the arguments of the call and main_args' result,
\* which no step of the task itself changes
env ==
    <<rust_path, git_dirs, context_cfgs, what, entry, exit_code, cmd_args,
      cwd, path_hack, parents>>

args ==
    <<rust_path, git_dirs, context_cfgs, what, entry, cmd_args, cwd,
      path_hack, parents>>

\* build_args' and test's own variables
caller_vars ==
    <<todo, built, dest_ws, args_result, test_exec, reported, killed>>

fallback_vars == <<clones, git_result, raised, handler_dir, read_only>>

script_vars ==
    <<script, script_built, pkg_exe, spawns, procs, exit_args, returned,
      output, status, hook>>

build_vars == <<custom, cfgs, warned, existing, compiled>>

install_vars ==
    <<inputs, install_calls, copied, installed, files, db, calls, touches>>

NoProc == [handle |-> "unspawned", exit_status |-> None, to_wake |-> FALSE]

NoHook == [cfgs |-> << >>, status |-> None]

\* build_args' Option<(PkgId, Path)>, and the value before it has returned
Pending == [kind |-> "pending", ws |-> ""]

NoResult == [kind |-> "None", ws |-> ""]

SomeResult(ws) == [kind |-> "Some", ws |-> ws]

\* build or install called directly, not through build_args
NoCaller ==
    /\ cmd_args = "none"
    /\ cwd = "elsewhere"
    /\ path_hack = FALSE
    /\ parents = {}
    /\ todo = << >>
    /\ built = << >>
    /\ dest_ws = "none"
    /\ args_result = Pending
    /\ test_exec = "unknown"
    /\ reported = << >>
    /\ killed = << >>

Init ==
    /\ NoCaller
    /\ rust_path \in RustPaths
    /\ git_dirs \in SUBSET Workspaces
    /\ context_cfgs \in CfgChoices
    /\ \/ /\ entry \in {"build", "install"}
          /\ what \in [build_type : BuildTypes, sources : SourcesChoices]
          /\ pc = "build"
       \/ /\ entry \in OtherCommands
          /\ what = [build_type |-> "MaybeCustom",
                     sources |-> [kind |-> "Everything", p |-> NoPath]]
          /\ pc = "run"
    /\ exit_code = << >>
    /\ err = ""
    /\ \E ws \in Workspaces : frames = <<PkgSrc_new(ws, ws)>>
    /\ clones = 0
    /\ git_result = "none"
    /\ raised = "no"
    /\ handler_dir = "none"
    /\ read_only = FALSE
    /\ script = "unknown"
    /\ script_built = FALSE
    /\ pkg_exe = "none"
    /\ spawns = [c \in Cmds |-> 0]
    /\ exit_args = [c \in Cmds |-> << >>]
    /\ returned = [c \in Cmds |-> << >>]
    /\ procs = [c \in Cmds |-> NoProc]
    /\ output = << >>
    /\ status = None
    /\ hook = NoHook
    /\ custom = FALSE
    /\ cfgs = << >>
    /\ warned = FALSE
    /\ existing = {}
    /\ compiled = << >>
    /\ inputs = << >>
    /\ install_calls = 0
    /\ copied = << >>
    /\ installed = << >>
    /\ files = Unseen
    /\ db = NoEntry
    /\ calls = << >>
    /\ touches = 0

\* the PkgSrc the innermost build call works on, and its `workspace` local
pkg_src == frames[Len(frames)]

workspace == pkg_src.source_workspace

Fail(why) == pc' = "Failed" /\ err' = why

(***************************************************************************)
(* The decisions of build and run_custom, as the code computes them.       *)
(***************************************************************************)
\* variant of needs_fallback: `||` written for `&&`
needs_fallback_either(path, gd, ws) == ~in_rust_path(path, ws) \/ ws \in gd

\* line 441: the condition under which build clones and repeats
needs_fallback(path, gd, ws) == ~in_rust_path(path, ws) /\ ws \in gd

\* variant of retry_workspace: the repeat is given the same workspace again
retry_same_workspace(path, ws) == ws

\* variant of retry_workspace: the repeat runs where the handler said
retry_handler_workspace(path, ws) ==
    IF raised = "handled" THEN handler_dir ELSE default_workspace(path)

\* lines 452-458: the source (and destination) workspace of the repeat
retry_workspace(path, ws) == default_workspace(path)

\* variant of after_install: `configs` is run whatever `install` returned
always_run_configs(st) == "run_configs"

\* lines 175-179: where run_custom goes once `install` has exited
after_install(st) ==
    IF ~success(st) THEN "hook_result" ELSE "run_configs"

\* line 177: the result when `install` did not succeed
install_failed_result(st) == [cfgs |-> << >>, status |-> st]

\* lines 187-189: the result after `configs` has run
configs_result(out, st) == [cfgs |-> words(out), status |-> st]

\* variant of hook_failed: the hook result is never looked at
hook_never_failed(h) == FALSE

\* variant of hook_failed: only a child killed by a signal counts as failed
hook_failed_on_signal(h) == h.status.kind = "ExitSignal"

\* line 488: the hook result that makes build fail
hook_failed(h) == ~success(h.status)

\* variant of merge_cfgs: the operands of `+` swapped
merge_cfgs_static_first(script_cfgs, static_cfgs) == static_cfgs \o script_cfgs

\* lines 466-503: the flags of the script followed by the configured ones
merge_cfgs(script_cfgs, static_cfgs) == script_cfgs \o static_cfgs

(***************************************************************************)
(* CtxMethods::build, lines 427-536.                                       *)
(***************************************************************************)
\* line 441: decide between the git fallback and the build proper
CheckFallback ==
    /\ pc = "build"
    /\ pc' = IF needs_fallback(rust_path, git_dirs, workspace)
                THEN "clone" ELSE "detect"
    /\ UNCHANGED <<env, err, frames, fallback_vars, script_vars, build_vars,
                   install_vars, caller_vars>>

\* lines 442-446: safe_git_clone into default_workspace()/src/<pkgid.path>
Clone ==
    /\ pc = "clone"
    /\ \E r \in {"CheckedOutSources", "DirToUse"} : git_result' = r
    /\ clones' = clones + 1
    /\ pc' = "git_result"
    /\ UNCHANGED <<env, err, frames, raised, handler_dir, read_only,
                   script_vars, build_vars, install_vars, caller_vars>>

\* variant of MatchGitResult: out_dir is made read-only whatever the clone
\* returned
MatchGitResultAlwaysReadOnly ==
    /\ pc = "git_result"
    /\ read_only' = TRUE
    /\ \/ /\ git_result = "CheckedOutSources"
          /\ pc' = "recurse"
          /\ UNCHANGED <<err, raised, handler_dir>>
       \/ /\ git_result # "CheckedOutSources"
          /\ raised' = "handled"
          /\ \E d \in Workspaces : handler_dir' = d
          /\ pc' = "recurse"
          /\ UNCHANGED err
       \/ /\ git_result # "CheckedOutSources"
          /\ raised' = "unhandled"
          /\ Fail("git_checkout_failed")
          /\ UNCHANGED handler_dir
    /\ UNCHANGED <<env, frames, clones, git_result, script_vars, build_vars,
                   install_vars, caller_vars>>

\* variant of MatchGitResult: raising git_checkout_failed without a handler
\* is not fatal
MatchGitResultUnhandledGoesOn ==
    /\ pc = "git_result"
    /\ \/ /\ git_result = "CheckedOutSources"
          /\ read_only' = TRUE
          /\ pc' = "recurse"
          /\ UNCHANGED <<raised, handler_dir>>
       \/ /\ git_result # "CheckedOutSources"
          /\ raised' = "handled"
          /\ \E d \in Workspaces : handler_dir' = d
          /\ pc' = "recurse"
          /\ UNCHANGED read_only
       \/ /\ git_result # "CheckedOutSources"
          /\ raised' = "unhandled"
          /\ pc' = "recurse"
          /\ UNCHANGED <<handler_dir, read_only>>
    /\ UNCHANGED <<env, err, frames, clones, git_result, script_vars,
                   build_vars, install_vars, caller_vars>>

\* lines 447-451: make the clone read-only, or raise git_checkout_failed.
\* Without a handler the raise is fatal; a handler may supply a directory,
\* and the value of the match is dropped by the `;` of line 451
MatchGitResult ==
    /\ pc = "git_result"
    /\ \/ /\ git_result = "CheckedOutSources"
          /\ read_only' = TRUE
          /\ pc' = "recurse"
          /\ UNCHANGED <<err, raised, handler_dir>>
       \/ /\ git_result # "CheckedOutSources"
          /\ raised' = "handled"
          /\ \E d \in Workspaces : handler_dir' = d
          /\ pc' = "recurse"
          /\ UNCHANGED <<err, read_only>>
       \/ /\ git_result # "CheckedOutSources"
          /\ raised' = "unhandled"
          /\ Fail("git_checkout_failed")
          /\ UNCHANGED <<handler_dir, read_only>>
    /\ UNCHANGED <<env, frames, clones, git_result, script_vars, build_vars,
                   install_vars, caller_vars>>

\* lines 452-458: build a fresh PkgSrc in the default workspace and call
\* build on it; PkgSrc::new fails when the package is not under its src/
Recurse ==
    /\ pc = "recurse"
    /\ Len(frames) < MaxFrames
    /\ LET ws == retry_workspace(rust_path, workspace) IN
        \/ /\ frames' = Append(frames, PkgSrc_new(ws, ws))
           /\ pc' = "build"
           /\ UNCHANGED err
        \/ /\ git_result # "CheckedOutSources"
           /\ Fail("PackageNotFound")
           /\ UNCHANGED frames
    /\ UNCHANGED <<env, fallback_vars, script_vars, build_vars, install_vars,
                   caller_vars>>

\* variant of DetectScript: a package script is built and run whatever the
\* build type
DetectScriptAnyBuildType ==
    /\ pc = "detect"
    /\ \E opt \in {"Some", "None"} :
        /\ script' = opt
        /\ IF opt = "Some"
              THEN pc' = "build_script" /\ UNCHANGED cfgs
              ELSE pc' = "sources" /\ cfgs' = merge_cfgs(<< >>, context_cfgs)
    /\ UNCHANGED <<env, err, frames, fallback_vars, script_built, pkg_exe,
                   spawns, procs, exit_args, returned, output, status, hook,
                   custom, warned, existing, compiled, install_vars,
                   caller_vars>>

\* lines 462-466 and 495-503: look for a package script; with none, or with
\* build type Inferred, the script contributes no flags
DetectScript ==
    /\ pc = "detect"
    /\ \E opt \in {"Some", "None"} :
        /\ script' = opt
        /\ IF opt = "Some" /\ what.build_type = "MaybeCustom"
              THEN pc' = "build_script" /\ UNCHANGED cfgs
              ELSE pc' = "sources" /\ cfgs' = merge_cfgs(<< >>, context_cfgs)
    /\ UNCHANGED <<env, err, frames, fallback_vars, script_built, pkg_exe,
                   spawns, procs, exit_args, returned, output, status, hook,
                   custom, warned, existing, compiled, install_vars,
                   caller_vars>>

\* variant of BuildScript: a script whose preparation was a cache hit is
\* not run again
BuildScriptHitSkipsRun ==
    /\ pc = "build_script"
    /\ \/ /\ pkg_exe' = "cached"
          /\ script_built' = TRUE
          /\ hook' = [cfgs |-> << >>, status |-> exit_of(0, 0)]
          /\ pc' = "hook_result"
          /\ UNCHANGED err
       \/ /\ pkg_exe' = "compiled"
          /\ script_built' = TRUE
          /\ pc' = "run_custom"
          /\ UNCHANGED <<err, hook>>
       \/ /\ Fail("CompileFailed")
          /\ UNCHANGED <<script_built, pkg_exe, hook>>
    /\ UNCHANGED <<env, frames, fallback_vars, script, spawns, procs,
                   exit_args, returned, output, status, build_vars,
                   install_vars, caller_vars>>

\* lines 470-484: the build_package_script preparation: its recorded
\* result is reused, or the package script is compiled (PkgScript::parse
\* and build_custom)
BuildScript ==
    /\ pc = "build_script"
    /\ \/ /\ \E how \in {"cached", "compiled"} : pkg_exe' = how
          /\ script_built' = TRUE
          /\ pc' = "run_custom"
          /\ UNCHANGED err
       \/ /\ Fail("CompileFailed")
          /\ UNCHANGED <<script_built, pkg_exe>>
    /\ UNCHANGED <<env, frames, fallback_vars, script, spawns, procs,
                   exit_args, returned, output, status, hook, build_vars,
                   install_vars, caller_vars>>

(***************************************************************************)
(* The libuv process handle, src/librustuv/process.rs.                     *)
(***************************************************************************)
\* lines 78-90: the handle Process::spawn returns
spawned == [handle |-> "live", exit_status |-> None, to_wake |-> FALSE]

\* lines 229-235: a handle that has been dropped (closed)
dropped == [handle |-> "closed", exit_status |-> None, to_wake |-> FALSE]

\* the child behind handle c has been spawned and has not exited yet
running(c) == procs[c].handle = "live" /\ procs[c].exit_status = None

\* the task's positions around the wait on child c
at_wait(c) ==
    CASE c = "install" -> "wait_install"
      [] c = "configs" -> "wait_configs"
      [] c = "test" -> "wait_test"

at_blocked(c) ==
    CASE c = "install" -> "blocked_install"
      [] c = "configs" -> "blocked_configs"
      [] c = "test" -> "blocked_test"

at_status(c) ==
    CASE c = "install" -> "status_install"
      [] c = "configs" -> "status_configs"
      [] c = "test" -> "status_test"

\* what the `configs` child may print
Outputs == SeqsUpTo(Chars, MaxOut)

\* variant of woken: on_exit forgets the task parked in to_wake
not_woken(c, at) == at

\* lines 112-118: where the task is after on_exit: resumed behind its wait
\* when it was parked in to_wake, otherwise where it was
woken(c, at) == IF procs[c].to_wake THEN at_status(c) ELSE at

\* variant of Wait: the task is parked without a look at exit_status
WaitAlwaysParks(c) ==
    /\ pc = at_wait(c)
    /\ procs' = [procs EXCEPT ![c].to_wake = TRUE]
    /\ pc' = at_blocked(c)
    /\ UNCHANGED <<env, err, frames, fallback_vars, script, script_built,
                   pkg_exe, spawns, exit_args, returned, output, status, hook,
                   build_vars, install_vars, caller_vars>>

\* lines 211-226, RtioProcess::wait: return at once when the exit status is
\* recorded, otherwise park the task in to_wake and deschedule it
Wait(c) ==
    /\ pc = at_wait(c)
    /\ IF procs[c].exit_status # None
          THEN /\ pc' = at_status(c)
               /\ returned' =
                    [returned EXCEPT ![c] = Append(@, procs[c].exit_status)]
               /\ UNCHANGED procs
          ELSE /\ procs' = [procs EXCEPT ![c].to_wake = TRUE]
               /\ pc' = at_blocked(c)
               /\ UNCHANGED returned
    /\ UNCHANGED <<env, err, frames, fallback_vars, script, script_built,
                   pkg_exe, spawns, exit_args, output, status, hook,
                   build_vars, install_vars, caller_vars>>

\* variant of OnExit: the exit callback of a live handle is called again,
\* and does not look at exit_status first
OnExitAgain(c) ==
    /\ procs[c].handle = "live"
    /\ Len(exit_args[c]) < MaxWaits
    /\ \E code \in ExitCodes, sig \in TermSignals :
        /\ procs' = [procs EXCEPT ![c].exit_status = exit_of(code, sig),
                                  ![c].to_wake = FALSE]
        /\ exit_args' = [exit_args EXCEPT ![c] = Append(@, <<code, sig>>)]
    /\ \E out \in (IF c = "configs" THEN Outputs ELSE {output}) :
        output' = out
    /\ pc' = woken(c, pc)
    /\ returned' = IF pc' # pc
                      THEN [returned EXCEPT
                                ![c] = Append(@, procs'[c].exit_status)]
                      ELSE returned
    /\ UNCHANGED <<env, err, frames, fallback_vars, script, script_built,
                   pkg_exe, spawns, status, hook, build_vars, install_vars,
                   caller_vars>>

\* variant of OnExit: the task parked in to_wake is taken out and not
\* resumed
OnExitDropsWakeup(c) ==
    /\ running(c)
    /\ \E code \in ExitCodes, sig \in TermSignals :
        /\ procs' = [procs EXCEPT ![c].exit_status = exit_of(code, sig),
                                  ![c].to_wake = FALSE]
        /\ exit_args' = [exit_args EXCEPT ![c] = Append(@, <<code, sig>>)]
    /\ \E out \in (IF c = "configs" THEN Outputs ELSE {output}) :
        output' = out
    /\ UNCHANGED <<env, pc, err, frames, fallback_vars, script, script_built,
                   pkg_exe, spawns, returned, status, hook, build_vars,
                   install_vars, caller_vars>>

\* lines 101-119, on_exit: record the exit status and resume the blocked
\* task, if any, whose wait then returns the recorded status (line 225);
\* the `configs` child's standard output is complete by then
OnExit(c) ==
    /\ running(c)
    /\ \E code \in ExitCodes, sig \in TermSignals :
        /\ procs' = [procs EXCEPT ![c].exit_status = exit_of(code, sig),
                                  ![c].to_wake = FALSE]
        /\ exit_args' = [exit_args EXCEPT ![c] = Append(@, <<code, sig>>)]
    /\ \E out \in (IF c = "configs" THEN Outputs ELSE {output}) :
        output' = out
    /\ pc' = woken(c, pc)
    /\ returned' = IF pc' # pc
                      THEN [returned EXCEPT
                                ![c] = Append(@, procs'[c].exit_status)]
                      ELSE returned
    /\ UNCHANGED <<env, err, frames, fallback_vars, script, script_built,
                   pkg_exe, spawns, status, hook, build_vars, install_vars,
                   caller_vars>>

(***************************************************************************)
(* PkgScript::run_custom, lines 168-191.                                   *)
(***************************************************************************)
\* variant of RunInstall: the child is spawned and not waited for
RunInstallDetached ==
    /\ pc = "run_custom"
    /\ procs' = [procs EXCEPT !["install"] = spawned]
    /\ spawns' = [spawns EXCEPT !["install"] = @ + 1]
    /\ pc' = "run_configs"
    /\ UNCHANGED <<env, err, frames, fallback_vars, script, script_built,
                   pkg_exe, exit_args, returned, output, status, hook,
                   build_vars, install_vars, caller_vars>>

\* lines 173-174: run::process_status spawns `<exe> <sysroot> install`
RunInstall ==
    /\ pc = "run_custom"
    /\ \/ /\ procs' = [procs EXCEPT !["install"] = spawned]
          /\ spawns' = [spawns EXCEPT !["install"] = @ + 1]
          /\ pc' = at_wait("install")
          /\ UNCHANGED err
       \/ /\ Fail("SpawnFailed")
          /\ UNCHANGED <<procs, spawns>>
    /\ UNCHANGED <<env, frames, fallback_vars, script, script_built, pkg_exe,
                   exit_args, returned, output, status, hook, build_vars,
                   install_vars, caller_vars>>

\* lines 175-179: the status of `install` is back and its handle dropped
InstallStatus ==
    /\ pc = at_status("install")
    /\ status' = procs["install"].exit_status
    /\ pc' = after_install(status')
    /\ hook' = IF ~success(status')
                  THEN install_failed_result(status') ELSE hook
    /\ procs' = [procs EXCEPT !["install"] = dropped]
    /\ pkg_exe' = IF pc' = "run_configs" THEN pkg_exe ELSE "none"
    /\ UNCHANGED <<env, err, frames, fallback_vars, script, script_built,
                   spawns, exit_args, returned, output, build_vars,
                   install_vars, caller_vars>>

\* lines 183-184: run::process_output spawns `<exe> <sysroot> configs`, the
\* last use run_custom makes of the script executable
RunConfigs ==
    /\ pc = "run_configs"
    /\ \/ /\ procs' = [procs EXCEPT !["configs"] = spawned]
          /\ spawns' = [spawns EXCEPT !["configs"] = @ + 1]
          /\ pc' = at_wait("configs")
          /\ UNCHANGED err
       \/ /\ Fail("SpawnFailed")
          /\ UNCHANGED <<procs, spawns>>
    /\ pkg_exe' = "none"
    /\ UNCHANGED <<env, frames, fallback_vars, script, script_built, exit_args,
                   returned, output, status, hook, build_vars, install_vars,
                   caller_vars>>

\* lines 185-190: tokenize the output of `configs` and return it with the
\* status of `configs`
ConfigsStatus ==
    /\ pc = at_status("configs")
    /\ hook' = configs_result(output, procs["configs"].exit_status)
    /\ procs' = [procs EXCEPT !["configs"] = dropped]
    /\ output' = << >>
    /\ pc' = "hook_result"
    /\ UNCHANGED <<env, err, frames, fallback_vars, script, script_built,
                   pkg_exe, spawns, exit_args, returned, status, build_vars,
                   install_vars, caller_vars>>

(***************************************************************************)
(* CtxMethods::build, continued.                                           *)
(***************************************************************************)
\* variant of HookResult: `custom = true` (line 491) left out
HookResultNotCustom ==
    /\ pc = "hook_result"
    /\ IF hook_failed(hook)
          THEN Fail("CustomBuildFailed") /\ UNCHANGED cfgs
          ELSE /\ cfgs' = merge_cfgs(hook.cfgs, context_cfgs)
               /\ pc' = "sources"
               /\ UNCHANGED err
    /\ UNCHANGED <<env, frames, fallback_vars, script_vars, custom, warned,
                   existing, compiled, install_vars, caller_vars>>

\* lines 486-494 and 503: fail on an unsuccessful hook result, otherwise
\* the build is custom and cfgs is the script's flags + the configured ones
HookResult ==
    /\ pc = "hook_result"
    /\ IF hook_failed(hook)
          THEN Fail("CustomBuildFailed") /\ UNCHANGED <<custom, cfgs>>
          ELSE /\ custom' = TRUE
               /\ cfgs' = merge_cfgs(hook.cfgs, context_cfgs)
               /\ pc' = "sources"
               /\ UNCHANGED err
    /\ UNCHANGED <<env, frames, fallback_vars, script_vars, warned, existing,
                   compiled, install_vars, caller_vars>>

\* line 507: a custom build compiles nothing more
CustomDone ==
    /\ pc = "sources"
    /\ custom
    /\ pc' = "return"
    /\ UNCHANGED <<env, err, frames, fallback_vars, script_vars, build_vars,
                   install_vars, caller_vars>>

\* lines 510 and 512: find_crates, or find_crates_with_filter(is_test),
\* over the role files present in the package directory
FindCrates ==
    /\ pc = "sources"
    /\ ~custom
    /\ what.sources.kind \in {"Everything", "Tests"}
    /\ \E present \in SUBSET RoleStems :
        LET found == IF what.sources.kind = "Tests"
                        THEN {st \in present : is_test(<<st>>)} ELSE present
        IN  /\ frames' = [frames EXCEPT ![Len(frames)] =
                [@ EXCEPT !.libs = @ \o crates_of(found, "lib"),
                          !.mains = @ \o crates_of(found, "main"),
                          !.tests = @ \o crates_of(found, "test"),
                          !.benchs = @ \o crates_of(found, "bench")]]
            /\ existing' = {<<st>> : st \in found}
    /\ pc' = "compile"
    /\ UNCHANGED <<env, err, fallback_vars, script_vars, custom, cfgs, warned,
                   compiled, install_vars, caller_vars>>

\* a path that matches none of the four role conventions
no_role(p) == ~(is_lib(p) \/ is_main(p) \/ is_test(p) \/ is_bench(p))

\* variant of JustOne: a path without a role is built as an executable
JustOneBuiltAnyway ==
    /\ pc = "sources"
    /\ ~custom
    /\ what.sources.kind = "JustOne"
    /\ LET p == what.sources.p IN
        \/ /\ Fail("AssertFailed")
           /\ UNCHANGED <<frames, existing>>
        \/ /\ frames' = [frames EXCEPT ![Len(frames)] =
                IF is_lib(p) THEN [@ EXCEPT !.libs = Append(@, p)]
                ELSE IF is_test(p) THEN [@ EXCEPT !.tests = Append(@, p)]
                ELSE IF is_bench(p) THEN [@ EXCEPT !.benchs = Append(@, p)]
                ELSE [@ EXCEPT !.mains = Append(@, p)]]
           /\ existing' = {p}
           /\ pc' = "compile"
           /\ UNCHANGED err
    /\ UNCHANGED <<env, fallback_vars, script_vars, custom, cfgs, warned,
                   compiled, install_vars, caller_vars>>

\* variant of JustOne: a path without a role is a fatal error
JustOneFatal ==
    /\ pc = "sources"
    /\ ~custom
    /\ what.sources.kind = "JustOne"
    /\ LET p == what.sources.p IN
        \/ /\ Fail("AssertFailed")
           /\ UNCHANGED <<frames, existing>>
        \/ /\ ~no_role(p)
           /\ frames' = [frames EXCEPT ![Len(frames)] =
                IF is_lib(p) THEN [@ EXCEPT !.libs = Append(@, p)]
                ELSE IF is_main(p) THEN [@ EXCEPT !.mains = Append(@, p)]
                ELSE IF is_test(p) THEN [@ EXCEPT !.tests = Append(@, p)]
                ELSE [@ EXCEPT !.benchs = Append(@, p)]]
           /\ existing' = {p}
           /\ pc' = "compile"
           /\ UNCHANGED err
        \/ /\ no_role(p)
           /\ existing' = {p}
           /\ Fail("UnresolvedTarget")
           /\ UNCHANGED frames
    /\ UNCHANGED <<env, fallback_vars, script_vars, custom, cfgs, warned,
                   compiled, install_vars, caller_vars>>

\* variant of JustOne: the path is pushed without looking for it on disk
JustOneUnchecked ==
    /\ pc = "sources"
    /\ ~custom
    /\ what.sources.kind = "JustOne"
    /\ LET p == what.sources.p IN
        \E exists \in BOOLEAN :
            /\ existing' = IF exists THEN {p} ELSE {}
            /\ \/ /\ ~no_role(p)
                  /\ frames' = [frames EXCEPT ![Len(frames)] =
                        IF is_lib(p) THEN [@ EXCEPT !.libs = Append(@, p)]
                        ELSE IF is_main(p)
                            THEN [@ EXCEPT !.mains = Append(@, p)]
                        ELSE IF is_test(p)
                            THEN [@ EXCEPT !.tests = Append(@, p)]
                        ELSE [@ EXCEPT !.benchs = Append(@, p)]]
                  /\ pc' = "compile"
                  /\ UNCHANGED <<err, warned>>
               \/ /\ no_role(p)
                  /\ warned' = TRUE
                  /\ pc' = "return"
                  /\ UNCHANGED <<err, frames>>
    /\ UNCHANGED <<env, fallback_vars, script_vars, custom, cfgs, compiled,
                   install_vars, caller_vars>>

\* lines 514-531: JustOne(p): p must exist under start_dir (assert); push it
\* into the list of its role, or warn and return when it has none
JustOne ==
    /\ pc = "sources"
    /\ ~custom
    /\ what.sources.kind = "JustOne"
    /\ LET p == what.sources.p IN
        \/ /\ Fail("AssertFailed")
           /\ UNCHANGED <<frames, warned, existing>>
        \/ /\ ~no_role(p)
           /\ frames' = [frames EXCEPT ![Len(frames)] =
                IF is_lib(p) THEN [@ EXCEPT !.libs = Append(@, p)]
                ELSE IF is_main(p) THEN [@ EXCEPT !.mains = Append(@, p)]
                ELSE IF is_test(p) THEN [@ EXCEPT !.tests = Append(@, p)]
                ELSE [@ EXCEPT !.benchs = Append(@, p)]]
           /\ existing' = {p}
           /\ pc' = "compile"
           /\ UNCHANGED <<err, warned>>
        \/ /\ no_role(p)
           /\ existing' = {p}
           /\ warned' = TRUE
           /\ pc' = "return"
           /\ UNCHANGED <<err, frames>>
    /\ UNCHANGED <<env, fallback_vars, script_vars, custom, cfgs, compiled,
                   install_vars, caller_vars>>

\* variant of Compile: a compiler failure is reported and build returns
CompileFailureReturns ==
    /\ pc = "compile"
    /\ \/ /\ compiled' = Append(compiled,
                [libs |-> pkg_src.libs, mains |-> pkg_src.mains,
                 tests |-> pkg_src.tests, benchs |-> pkg_src.benchs,
                 cfgs |-> cfgs])
          /\ pc' = "return"
          /\ UNCHANGED err
       \/ /\ err' = "CompileFailed"
          /\ pc' = "return"
          /\ UNCHANGED compiled
    /\ UNCHANGED <<env, frames, fallback_vars, script_vars, custom, cfgs,
                   warned, existing, install_vars, caller_vars>>

\* line 534: pkg_src.build(self, cfgs, []) compiles every crate of the four
\* lists with the merged flags; a compiler failure is fatal
Compile ==
    /\ pc = "compile"
    /\ \/ /\ compiled' = Append(compiled,
                [libs |-> pkg_src.libs, mains |-> pkg_src.mains,
                 tests |-> pkg_src.tests, benchs |-> pkg_src.benchs,
                 cfgs |-> cfgs])
          /\ pc' = "return"
          /\ UNCHANGED err
       \/ /\ Fail("CompileFailed")
          /\ UNCHANGED compiled
    /\ UNCHANGED <<env, frames, fallback_vars, script_vars, custom, cfgs,
                   warned, existing, install_vars, caller_vars>>

\* variant of Return: the caller's PkgSrc takes over the lists of the repeat
ReturnKeepsRetryTree ==
    /\ pc = "return"
    /\ frames' = <<[frames[1] EXCEPT !.libs = pkg_src.libs,
                                     !.mains = pkg_src.mains,
                                     !.tests = pkg_src.tests,
                                     !.benchs = pkg_src.benchs]>>
    /\ cfgs' = << >>
    /\ hook' = NoHook
    /\ pc' = CASE entry = "install" -> "declare_inputs"
               [] entry \in {"build_args", "test"} -> "each_workspace"
               [] OTHER -> "Done"
    /\ UNCHANGED <<env, err, fallback_vars, script, script_built, pkg_exe,
                   spawns, procs, exit_args, returned, output, status, custom,
                   warned, existing, compiled, install_vars, caller_vars>>

\* lines 455-459 and 536: build returns to its caller; the PkgSrc of a
\* repeat was a temporary of the call and goes away with it, as do the
\* locals cfgs and (cfgs, hook_result)
Return ==
    /\ pc = "return"
    /\ frames' = <<frames[1]>>
    /\ cfgs' = << >>
    /\ hook' = NoHook
    /\ pc' = CASE entry = "install" -> "declare_inputs"
               [] entry \in {"build_args", "test"} -> "each_workspace"
               [] OTHER -> "Done"
    /\ UNCHANGED <<env, err, fallback_vars, script, script_built, pkg_exe,
                   spawns, procs, exit_args, returned, output, status, custom,
                   warned, existing, compiled, install_vars, caller_vars>>

(***************************************************************************)
(* CtxMethods::install and install_no_build, lines 559-687.                *)
(***************************************************************************)
\* variant of declared_inputs: the executables are listed first
declared_inputs_mains_first(src) ==
    LET all == src.mains \o src.libs \o src.tests \o src.benchs
    IN  [i \in 1..Len(all) |->
            [kind |-> "file", path |-> join(start_dir(src), all[i])]]

\* lines 575-586: one ("file", start_dir/<file>) input per crate of the
\* caller's PkgSrc: libraries, executables, tests, then benchmarks
declared_inputs(src) ==
    LET all == src.libs \o src.mains \o src.tests \o src.benchs
    IN  [i \in 1..Len(all) |->
            [kind |-> "file", path |-> join(start_dir(src), all[i])]]

\* variant of DeclareInputs: install stops when the build left no crate
DeclareInputsStopsWhenEmpty ==
    /\ pc = "declare_inputs"
    /\ inputs' = declared_inputs(frames[1])
    /\ pc' = IF inputs' = << >> THEN "Done" ELSE "install_no_build"
    /\ UNCHANGED <<env, err, frames, fallback_vars, script_vars, build_vars,
                   install_calls, copied, installed, files, db, calls,
                   touches, caller_vars>>

\* lines 575-586
DeclareInputs ==
    /\ pc = "declare_inputs"
    /\ inputs' = declared_inputs(frames[1])
    /\ pc' = "install_no_build"
    /\ UNCHANGED <<env, err, frames, fallback_vars, script_vars, build_vars,
                   install_calls, copied, installed, files, db, calls,
                   touches, caller_vars>>

\* lines 579-584: the paths install passes on as build_inputs
build_inputs(ins) == [i \in 1..Len(ins) |-> ins[i].path]

\* one step of a call of install_no_build, as the preparation sees it
ev(op, kind, name, fp) == [op |-> op, kind |-> kind, name |-> name, fp |-> fp]

\* the inputs among a list of items, as declare_input steps
as_events(op, its) ==
    [i \in 1..Len(its) |-> ev(op, its[i].kind, its[i].name, its[i].fp)]

\* lines 621-633: the built artifacts that exist, declared as "binary"
\* inputs with their date
install_declared(fs) ==
    (IF file_exists(fs, BuiltExe)
        THEN <<item("binary", BuiltExe, digest_only_date(fs, BuiltExe))>>
        ELSE << >>)
    \o (IF file_exists(fs, BuiltLib)
        THEN <<item("binary", BuiltLib, digest_only_date(fs, BuiltLib))>>
        ELSE << >>)

\* lines 643-659: the inputs the body discovers: the artifacts again, then
\* every build input as a "file" with its content hash and date
discovered_inputs(fs, ins) ==
    install_declared(fs)
    \o [i \in 1..Len(ins) |->
            item("file", ins[i], digest_file_with_date(fs, ins[i]))]

\* variant of install_outputs: the library is listed before the executable
install_outputs_lib_first(exe, lib) ==
    (IF lib THEN <<TargetLib>> ELSE << >>)
    \o (IF exe THEN <<TargetExe>> ELSE << >>)

\* lines 661-685: the destination paths pushed to `outputs`, for the
\* artifacts present
install_outputs(exe, lib) ==
    (IF exe THEN <<TargetExe>> ELSE << >>)
    \o (IF lib THEN <<TargetLib>> ELSE << >>)

\* lines 667 and 678, fs::copy: the destination gets the content of the
\* source and a new date
after_copy(fs, from, to) ==
    [fs EXCEPT ![to] = [date |-> fs[to].date + 1, content |-> fs[from].content]]

\* the file system after the copies of the artifacts present
after_copies(fs, exe, lib) ==
    LET fs1 == IF exe THEN after_copy(fs, BuiltExe, TargetExe) ELSE fs
    IN  IF lib THEN after_copy(fs1, BuiltLib, TargetLib) ELSE fs1

\* variant of after_failed_copy: the copies made before the failure are
\* undone
after_failed_copy_undone(fs, exe, n) == fs

\* lines 666-682: the file system when the n-th copy fails (the condition
\* raised at 668 or 678 is not handled): the copies before it stay
after_failed_copy(fs, exe, n) ==
    IF n = 2 THEN after_copies(fs, exe, FALSE) ELSE fs

\* lines 666-670 and 676-682: make the directory, copy one artifact, and
\* discover its destination as a "binary" output with its date
copy_steps(fs, from, to) ==
    <<ev("mkdir", "", to, NoFp),
      ev("copy", "binary", to, NoFp),
      ev("discover_output", "binary", to,
         digest_only_date(after_copy(fs, from, to), to))>>

\* variant of body_steps: the artifacts are copied before the inputs are
\* discovered
body_steps_copy_first(fs, ins, exe, lib) ==
    <<ev("exec", "", << >>, NoFp)>>
    \o (IF exe THEN copy_steps(fs, BuiltExe, TargetExe) ELSE << >>)
    \o (IF lib THEN copy_steps(after_copies(fs, exe, FALSE),
                                BuiltLib, TargetLib)
               ELSE << >>)
    \o as_events("discover_input", discovered_inputs(fs, ins))

\* lines 639-685: the steps of the body of prep.exec when no copy fails
body_steps(fs, ins, exe, lib) ==
    <<ev("exec", "", << >>, NoFp)>>
    \o as_events("discover_input", discovered_inputs(fs, ins))
    \o (IF exe THEN copy_steps(fs, BuiltExe, TargetExe) ELSE << >>)
    \o (IF lib THEN copy_steps(after_copies(fs, exe, FALSE),
                                BuiltLib, TargetLib)
               ELSE << >>)

\* the discover_output steps among steps, as the record's outputs
outputs_of(steps) ==
    LET outs == SelectSeq(steps, LAMBDA e : e.op = "discover_output")
    IN  [i \in 1..Len(outs) |-> item(outs[i].kind, outs[i].name, outs[i].fp)]

\* variant of runs_body: the body is called whatever the preparation holds
runs_body_always(hit) == TRUE

\* line 639, prep.exec: the body runs unless the record stands for it
runs_body(hit) == ~hit

\* what one call saw and did
call(fs, ins, hit, failed, steps, result) ==
    [exe |-> file_exists(fs, BuiltExe), lib |-> file_exists(fs, BuiltLib),
     seen |-> discovered_inputs(fs, ins),
     hit |-> hit, failed |-> failed, steps |-> steps, result |-> result]

\* lines 600-687: declare the artifacts that exist; on a record that stands
\* return its result; otherwise discover the inputs, copy each artifact and
\* discover it as an output, record and return the destinations.  A copy
\* that fails is fatal and leaves the earlier copy in place.
InstallNoBuild ==
    /\ pc = "install_no_build"
    /\ install_calls' = install_calls + 1
    /\ \E fs \in views(files) :
        LET exe == file_exists(fs, BuiltExe)
            lib == file_exists(fs, BuiltLib)
            ins == build_inputs(inputs)
            declared == install_declared(fs)
            decl_steps == as_events("declare_input", declared)
            hit == cache_hit(db, declared, fs)
            steps == body_steps(fs, ins, exe, lib)
            until(op_n) ==
                \* the steps before the op_n-th copy
                LET at == CHOOSE k \in 1..Len(steps) :
                        /\ steps[k].op = "copy"
                        /\ Len(SelectSeq(SubSeq(steps, 1, k),
                                         LAMBDA e : e.op = "copy")) = op_n
                IN  SubSeq(steps, 1, at - 1)
            ncopies == Len(install_outputs(exe, lib))
        IN  IF ~runs_body(hit)
            THEN /\ files' = fs
                 /\ installed' = db.result
                 /\ calls' = Append(calls,
                        call(fs, ins, TRUE, FALSE, decl_steps, db.result))
                 /\ pc' = "Done"
                 /\ UNCHANGED <<err, copied, db>>
            ELSE \/ /\ files' = after_copies(fs, exe, lib)
                    /\ copied' = copied \o install_outputs(exe, lib)
                    /\ db' = [valid |-> TRUE, declared |-> declared,
                              discovered |-> discovered_inputs(fs, ins),
                              outputs |-> outputs_of(steps),
                              result |-> install_outputs(exe, lib)]
                    /\ installed' = install_outputs(exe, lib)
                    /\ calls' = Append(calls,
                            call(fs, ins, FALSE, FALSE, decl_steps \o steps,
                                 install_outputs(exe, lib)))
                    /\ pc' = "Done"
                    /\ UNCHANGED err
                 \/ \E n \in 1..ncopies :
                    /\ files' = after_failed_copy(fs, exe, n)
                    /\ copied' = copied \o
                            SubSeq(install_outputs(exe, lib), 1, n - 1)
                    /\ calls' = Append(calls,
                            call(fs, ins, FALSE, TRUE, decl_steps \o until(n),
                                 << >>))
                    /\ Fail("CopyFailed")
                    /\ UNCHANGED <<db, installed>>
    /\ UNCHANGED <<env, frames, fallback_vars, script_vars, build_vars,
                   inputs, touches, caller_vars>>

\* a caller that got its list back calls install_no_build once more with
\* the same arguments
CallAgain ==
    /\ pc = "Done"
    /\ 0 < install_calls /\ install_calls < MaxCalls
    /\ pc' = "install_no_build"
    /\ UNCHANGED <<env, err, frames, fallback_vars, script_vars, build_vars,
                   install_vars, caller_vars>>

\* between two calls a built artifact or a source file is rewritten: it
\* gets a new date, and its content changes or stays
Touch ==
    /\ pc = "Done"
    /\ 0 < install_calls
    /\ touches < MaxTouches
    /\ touches' = touches + 1
    /\ \E f \in {BuiltExe, BuiltLib}
                \cup {g \in SourceFiles : g[1] = frames[1].source_workspace},
          c \in {0, 1} :
        files' = [files EXCEPT ![f] = [date |-> @.date + 1, content |-> c]]
    /\ UNCHANGED <<env, pc, err, frames, fallback_vars, script_vars,
                   build_vars, inputs, install_calls, copied, installed, db,
                   calls, caller_vars>>

(***************************************************************************)
(* CtxMethods::run and main_args, lines 275-420 and 905-926.               *)
(***************************************************************************)
\* lines 305-307 with 555-557, and line 418: `info` is a stub that fails,
\* and so does a command run does not know
RunOther ==
    /\ pc = "run"
    /\ entry \in OtherCommands
    /\ Fail(IF entry = "info" THEN "NotImplemented" ELSE "UnknownCommand")
    /\ UNCHANGED <<env, frames, fallback_vars, script_vars, build_vars,
                   install_vars, caller_vars>>

Terminated == pc \in {"Done", "Failed"}

\* variant of boundary_code: the result of task::try is not looked at
boundary_code_ignored(failed) == 0

\* lines 925-926: the exit code main_args makes of the result of task::try
boundary_code(failed) == IF failed THEN COPY_FAILED_CODE ELSE 0

\* lines 909-926: the task started by task::try has ended, normally or by
\* failing, and main_args returns
MainArgsReturn ==
    /\ Terminated
    /\ exit_code = << >>
    /\ exit_code' = <<boundary_code(pc = "Failed")>>
    /\ UNCHANGED <<args, pc, err, frames, fallback_vars, script_vars,
                   build_vars, install_vars, caller_vars>>

(***************************************************************************)
(* Specifications.                                                         *)
(***************************************************************************)
Next ==
    \/ CheckFallback
    \/ Clone
    \/ MatchGitResult
    \/ Recurse
    \/ DetectScript
    \/ BuildScript
    \/ RunInstall
    \/ \E c \in Cmds : Wait(c)
    \/ \E c \in Cmds : OnExit(c)
    \/ InstallStatus
    \/ RunConfigs
    \/ ConfigsStatus
    \/ HookResult
    \/ CustomDone
    \/ FindCrates
    \/ JustOne
    \/ Compile
    \/ Return
    \/ DeclareInputs
    \/ InstallNoBuild
    \/ RunOther
    \/ MainArgsReturn

Spec == Init /\ [][Next]_vars

\* every external call returns: a step that can be taken is taken
FairSpec == Spec /\ WF_vars(Next)

\* the build_inputs lists a caller of install_no_build may pass
InputChoices ==
    {declared_inputs([PkgSrc_new("A", "A") EXCEPT
            !.libs = crates_of(found, "lib"),
            !.mains = crates_of(found, "main"),
            !.tests = crates_of(found, "test")]) :
        found \in {{}, {"lib"}, {"lib", "main"}, {"main", "test"}}}

\* install_no_build called on its own: in workspace A, with a list of
\* build inputs, on a preparation that has no record yet
InstallInit ==
    /\ NoCaller
    /\ rust_path = <<"A">>
    /\ git_dirs = {}
    /\ context_cfgs = << >>
    /\ what = [build_type |-> "MaybeCustom",
               sources |-> [kind |-> "Everything", p |-> NoPath]]
    /\ entry = "install_no_build"
    /\ exit_code = << >>
    /\ pc = "install_no_build"
    /\ err = ""
    /\ frames = <<PkgSrc_new("A", "A")>>
    /\ clones = 0
    /\ git_result = "none"
    /\ raised = "no"
    /\ handler_dir = "none"
    /\ read_only = FALSE
    /\ script = "unknown"
    /\ script_built = FALSE
    /\ pkg_exe = "none"
    /\ spawns = [c \in Cmds |-> 0]
    /\ exit_args = [c \in Cmds |-> << >>]
    /\ returned = [c \in Cmds |-> << >>]
    /\ procs = [c \in Cmds |-> NoProc]
    /\ output = << >>
    /\ status = None
    /\ hook = NoHook
    /\ custom = FALSE
    /\ cfgs = << >>
    /\ warned = FALSE
    /\ existing = {}
    /\ compiled = << >>
    /\ inputs \in InputChoices
    /\ install_calls = 0
    /\ copied = << >>
    /\ installed = << >>
    /\ files = Unseen
    /\ db = NoEntry
    /\ calls = << >>
    /\ touches = 0

InstallNext ==
    \/ InstallNoBuild
    \/ CallAgain
    \/ Touch

\* successive calls of install_no_build, with the files changing between
InstallSpec == InstallInit /\ [][InstallNext]_vars

\* the variables of the task as they are before its first step
Pristine ==
    /\ exit_code = << >>
    /\ err = ""
    /\ clones = 0
    /\ git_result = "none"
    /\ raised = "no"
    /\ handler_dir = "none"
    /\ read_only = FALSE
    /\ script = "unknown"
    /\ script_built = FALSE
    /\ pkg_exe = "none"
    /\ spawns = [c \in Cmds |-> 0]
    /\ exit_args = [c \in Cmds |-> << >>]
    /\ returned = [c \in Cmds |-> << >>]
    /\ procs = [c \in Cmds |-> NoProc]
    /\ output = << >>
    /\ status = None
    /\ hook = NoHook
    /\ custom = FALSE
    /\ cfgs = << >>
    /\ warned = FALSE
    /\ existing = {}
    /\ compiled = << >>
    /\ inputs = << >>
    /\ install_calls = 0
    /\ copied = << >>
    /\ installed = << >>
    /\ files = Unseen
    /\ db = NoEntry
    /\ calls = << >>
    /\ touches = 0

(***************************************************************************)
(* A task that owns one process handle: it spawns the child, waits for it  *)
(* any number of times and drops the handle.                               *)
(***************************************************************************)
ProcessInit ==
    /\ NoCaller
    /\ rust_path = <<"A">>
    /\ git_dirs = {}
    /\ context_cfgs = << >>
    /\ what = [build_type |-> "MaybeCustom",
               sources |-> [kind |-> "Everything", p |-> NoPath]]
    /\ entry = "process"
    /\ pc = "spawn"
    /\ frames = <<PkgSrc_new("A", "A")>>
    /\ Pristine

\* process.rs lines 44-98, Process::spawn: the handle starts with no exit
\* status and no task to wake, or uv_spawn fails and there is no handle
ProcessSpawn ==
    /\ pc = "spawn"
    /\ \E c \in Cmds :
        \/ /\ procs' = [procs EXCEPT ![c] = spawned]
           /\ spawns' = [spawns EXCEPT ![c] = @ + 1]
           /\ pc' = "held"
           /\ UNCHANGED err
        \/ /\ Fail("SpawnFailed")
           /\ UNCHANGED <<procs, spawns>>
    /\ UNCHANGED <<env, frames, fallback_vars, script, script_built, pkg_exe,
                   exit_args, returned, output, status, hook, build_vars,
                   install_vars, caller_vars>>

\* the owner of the handle calls wait (process.rs line 211)
ProcessCallWait(c) ==
    /\ pc = "held"
    /\ procs[c].handle = "live"
    /\ Len(returned[c]) < MaxWaits
    /\ pc' = at_wait(c)
    /\ UNCHANGED <<env, err, frames, fallback_vars, script_vars, build_vars,
                   install_vars, caller_vars>>

\* wait has returned its status to the owner (process.rs line 225)
ProcessWaitReturned(c) ==
    /\ pc = at_status(c)
    /\ pc' = "held"
    /\ UNCHANGED <<env, err, frames, fallback_vars, script_vars, build_vars,
                   install_vars, caller_vars>>

\* process.rs lines 201-209, kill: uv_process_kill is called on the handle
\* and its result handed back; no field of the handle changes
ProcessKill(c) ==
    /\ pc = "held"
    /\ procs[c].handle = "live"
    /\ Len(killed) < MaxKills
    /\ \E r \in {"Ok", "Err"} : killed' = Append(killed, r)
    /\ UNCHANGED <<env, pc, err, frames, fallback_vars, script_vars,
                   build_vars, install_vars, todo, built, dest_ws,
                   args_result, test_exec, reported>>

\* variant of ProcessDrop: the handle is dropped by another task while its
\* owner may be parked in wait
ProcessDropByOther(c) ==
    /\ pc \in {"held", at_blocked(c)}
    /\ procs[c].handle = "live"
    /\ IF procs[c].to_wake
          THEN /\ Fail("AssertFailed")
               /\ UNCHANGED procs
          ELSE /\ procs' = [procs EXCEPT ![c] = dropped]
               /\ pc' = "Done"
               /\ UNCHANGED err
    /\ UNCHANGED <<env, frames, fallback_vars, script, script_built, pkg_exe,
                   spawns, exit_args, returned, output, status, hook,
                   build_vars, install_vars, caller_vars>>

\* process.rs lines 229-235, Drop: the owner lets go of the handle; the
\* assert fails when a task is parked in to_wake, otherwise the handle is
\* closed
ProcessDrop(c) ==
    /\ pc = "held"
    /\ procs[c].handle = "live"
    /\ IF procs[c].to_wake
          THEN /\ Fail("AssertFailed")
               /\ UNCHANGED procs
          ELSE /\ procs' = [procs EXCEPT ![c] = dropped]
               /\ pc' = "Done"
               /\ UNCHANGED err
    /\ UNCHANGED <<env, frames, fallback_vars, script, script_built, pkg_exe,
                   spawns, exit_args, returned, output, status, hook,
                   build_vars, install_vars, caller_vars>>

ProcessNext ==
    \/ ProcessSpawn
    \/ \E c \in Cmds : ProcessCallWait(c)
    \/ \E c \in Cmds : Wait(c)
    \/ \E c \in Cmds : OnExit(c)
    \/ \E c \in Cmds : ProcessWaitReturned(c)
    \/ \E c \in Cmds : ProcessKill(c)
    \/ \E c \in Cmds : ProcessDrop(c)

\* the life of one process handle
ProcessSpec == ProcessInit /\ [][ProcessNext]_vars

\* a child that has been spawned exits, and the event loop then calls the
\* exit callback registered at spawn (process.rs line 63)
FairProcessSpec == ProcessSpec /\ \A c \in Cmds : WF_vars(OnExit(c))

(***************************************************************************)
(* CtxMethods::build_args (lines 224-274), the `build` and `test` arms of  *)
(* run (278-280, 368-381) and CtxMethods::test (693-709).                  *)
(***************************************************************************)
\* the workspace made of the working directory itself
CwdWorkspace == "cwd"

\* variant of pkg_parent_workspaces: the walk stops at the first workspace
pkg_parent_workspaces_first(path, holding) ==
    LET all == SelectSeq(path, LAMBDA w : w \in holding)
    IN  IF all = << >> THEN << >> ELSE <<all[1]>>

\* the workspaces each_pkg_parent_workspace hands to its callback: those
\* of the search path that hold the package, in search-path order
pkg_parent_workspaces(path, holding) ==
    SelectSeq(path, LAMBDA w : w \in holding)

\* path_util::determine_destination
determine_destination(dir, hack, ws) ==
    IF hack /\ ~(dir \in Workspaces) THEN CwdWorkspace ELSE ws

\* the state of a task that has not entered build yet
BeforeBuild ==
    /\ script' = "unknown"
    /\ script_built' = FALSE
    /\ pkg_exe' = "none"
    /\ spawns' = [c \in Cmds |-> 0]
    /\ procs' = [c \in Cmds |-> NoProc]
    /\ exit_args' = [c \in Cmds |-> << >>]
    /\ returned' = [c \in Cmds |-> << >>]
    /\ output' = << >>
    /\ status' = None
    /\ hook' = NoHook
    /\ custom' = FALSE
    /\ cfgs' = << >>
    /\ existing' = {}

\* lines 224-255: build_args without arguments builds the package of the
\* working directory, or prints the usage and returns None; with a package
\* id it starts from default_workspace() and walks the workspaces that
\* hold the package
BuildArgs ==
    /\ pc = "build_args"
    /\ \/ /\ cmd_args = "none"
          /\ cwd \in Workspaces
          /\ frames' = <<PkgSrc_new(cwd, cwd)>>
          /\ built' = Append(built, PkgSrc_new(cwd, cwd))
          /\ dest_ws' = cwd
          /\ pc' = "build"
          /\ UNCHANGED <<todo, args_result>>
       \/ /\ cmd_args = "none"
          /\ cwd = "crate_dir"
          /\ LET src == PkgSrc_new(CwdWorkspace, default_workspace(rust_path))
             IN  /\ frames' = <<src>>
                 /\ built' = Append(built, src)
          /\ dest_ws' = default_workspace(rust_path)
          /\ pc' = "build"
          /\ UNCHANGED <<todo, args_result>>
       \/ /\ cmd_args = "none"
          /\ cwd = "elsewhere"
          /\ args_result' = NoResult
          /\ pc' = "build_args_returned"
          /\ UNCHANGED <<frames, built, dest_ws, todo>>
       \/ /\ cmd_args = "pkgid"
          /\ dest_ws' = default_workspace(rust_path)
          /\ todo' = pkg_parent_workspaces(rust_path, parents)
          /\ pc' = "each_workspace"
          /\ UNCHANGED <<frames, built, args_result>>
    /\ UNCHANGED <<env, err, fallback_vars, script_vars, build_vars,
                   install_vars, test_exec, reported, killed>>

\* variant of EachWorkspace: build_args returns None when the package was
\* built in no workspace
EachWorkspaceNoneWhenUnbuilt ==
    /\ pc = "each_workspace"
    /\ IF todo = << >>
          THEN /\ args_result' = IF built = << >> THEN NoResult
                                                  ELSE SomeResult(dest_ws)
               /\ pc' = "build_args_returned"
               /\ UNCHANGED <<frames, todo, built, dest_ws, script_vars,
                              custom, cfgs, existing>>
          ELSE LET ws == Head(todo)
                   dst == determine_destination(cwd, path_hack, ws)
               IN  /\ dest_ws' = dst
                   /\ frames' = <<PkgSrc_new(ws, dst)>>
                   /\ built' = Append(built, PkgSrc_new(ws, dst))
                   /\ todo' = Tail(todo)
                   /\ BeforeBuild
                   /\ pc' = "build"
                   /\ UNCHANGED args_result
    /\ UNCHANGED <<env, err, fallback_vars, warned, compiled, install_vars,
                   test_exec, reported, killed>>

\* lines 257-273: the callback of each_pkg_parent_workspace computes the
\* destination and builds the package in the next workspace; after the
\* last one build_args returns the package id with dest_ws
EachWorkspace ==
    /\ pc = "each_workspace"
    /\ IF todo = << >>
          THEN /\ args_result' = SomeResult(dest_ws)
               /\ pc' = "build_args_returned"
               /\ UNCHANGED <<frames, todo, built, dest_ws, script_vars,
                              custom, cfgs, existing>>
          ELSE LET ws == Head(todo)
                   dst == determine_destination(cwd, path_hack, ws)
               IN  /\ dest_ws' = dst
                   /\ frames' = <<PkgSrc_new(ws, dst)>>
                   /\ built' = Append(built, PkgSrc_new(ws, dst))
                   /\ todo' = Tail(todo)
                   /\ BeforeBuild
                   /\ pc' = "build"
                   /\ UNCHANGED args_result
    /\ UNCHANGED <<env, err, fallback_vars, warned, compiled, install_vars,
                   test_exec, reported, killed>>

\* lines 278-280 and 368-381: `build` is done when build_args returns;
\* `test` goes on to the tests with Some, and reports an error with None
AfterBuildArgs ==
    /\ pc = "build_args_returned"
    /\ IF entry = "test"
          THEN IF args_result = NoResult
                  THEN /\ reported' = Append(reported, "Testing failed")
                       /\ pc' = "Done"
                  ELSE /\ pc' = "test"
                       /\ UNCHANGED reported
          ELSE /\ pc' = "Done"
               /\ UNCHANGED reported
    /\ UNCHANGED <<env, err, frames, fallback_vars, script_vars, build_vars,
                   install_vars, todo, built, dest_ws, args_result,
                   test_exec, killed>>

\* lines 693-706: look for the built test executable; without one an
\* error is reported and test returns
TestLookup ==
    /\ pc = "test"
    /\ \E found \in {"Some", "None"} :
        /\ test_exec' = found
        /\ IF found = "Some"
              THEN pc' = "run_test" /\ UNCHANGED reported
              ELSE /\ reported' = Append(reported, "Internal error")
                   /\ pc' = "Done"
    /\ UNCHANGED <<env, err, frames, fallback_vars, script_vars, build_vars,
                   install_vars, todo, built, dest_ws, args_result, killed>>

\* line 698: run::process_status spawns `<test_exec> --test`
RunTest ==
    /\ pc = "run_test"
    /\ \/ /\ procs' = [procs EXCEPT !["test"] = spawned]
          /\ spawns' = [spawns EXCEPT !["test"] = @ + 1]
          /\ pc' = at_wait("test")
          /\ UNCHANGED err
       \/ /\ Fail("SpawnFailed")
          /\ UNCHANGED <<procs, spawns>>
    /\ UNCHANGED <<env, frames, fallback_vars, script, script_built, pkg_exe,
                   exit_args, returned, output, status, hook, build_vars,
                   install_vars, caller_vars>>

\* variant of tests_failed: the status of the tests is not looked at
tests_failed_ignored(st) == FALSE

\* line 699: the tests failed unless the child exited with status 0
tests_failed(st) == ~success(st)

\* lines 698-701: the status of the test executable is back and its handle
\* dropped; an unsuccessful status fails the task
TestStatus ==
    /\ pc = at_status("test")
    /\ procs' = [procs EXCEPT !["test"] = dropped]
    /\ IF tests_failed(procs["test"].exit_status)
          THEN Fail("TestsFailed")
          ELSE pc' = "Done" /\ UNCHANGED err
    /\ UNCHANGED <<env, frames, fallback_vars, script, script_built, pkg_exe,
                   spawns, exit_args, returned, output, status, hook,
                   build_vars, install_vars, caller_vars>>

\* the in-order choices of workspaces that may hold the package
BuildArgsInit ==
    /\ rust_path \in RustPaths
    /\ git_dirs = {}
    /\ context_cfgs = << >>
    /\ entry \in {"build_args", "test"}
    /\ what = [build_type |-> "MaybeCustom",
               sources |-> [kind |-> IF entry = "test" THEN "Tests"
                                                       ELSE "Everything",
                            p |-> NoPath]]
    /\ \/ /\ cmd_args = "none"
          /\ cwd \in {"A", "crate_dir", "elsewhere"}
          /\ path_hack = FALSE
          /\ parents = {}
       \/ /\ cmd_args = "pkgid"
          /\ cwd \in {"A", "elsewhere"}
          /\ path_hack \in BOOLEAN
          /\ parents \in SUBSET Workspaces
    /\ todo = << >>
    /\ built = << >>
    /\ dest_ws = "none"
    /\ args_result = Pending
    /\ test_exec = "unknown"
    /\ reported = << >>
    /\ killed = << >>
    /\ pc = "build_args"
    /\ frames = << >>
    /\ Pristine

BuildArgsNext ==
    \/ BuildArgs
    \/ EachWorkspace
    \/ AfterBuildArgs
    \/ TestLookup
    \/ RunTest
    \/ TestStatus
    \/ CheckFallback
    \/ DetectScript
    \/ BuildScript
    \/ RunInstall
    \/ \E c \in Cmds : Wait(c)
    \/ \E c \in Cmds : OnExit(c)
    \/ InstallStatus
    \/ RunConfigs
    \/ ConfigsStatus
    \/ HookResult
    \/ CustomDone
    \/ FindCrates
    \/ Compile
    \/ Return
    \/ MainArgsReturn

\* the `build` and `test` commands
BuildArgsSpec == BuildArgsInit /\ [][BuildArgsNext]_vars

(***************************************************************************)
(* Properties.                                                             *)
(***************************************************************************)
\* the source workspace build was called with
ws0 == frames[1].source_workspace

\* positions of the git fallback (lines 442-458)
FallbackPcs == {"clone", "git_result", "recurse"}

\* positions at which build's local cfgs has its final value
CfgsPcs == {"sources", "compile", "return"}

\* positions after build has returned normally
ReturnedPcs == {"Done", "declare_inputs", "install_no_build"}

no_crates(src) ==
    src.libs = << >> /\ src.mains = << >> /\ src.tests = << >>
        /\ src.benchs = << >>

Range(f) == {f[i] : i \in 1..Len(f)}

\* `install` has exited and did not succeed
install_failed == status # None /\ ~success(status)

\* `install` succeeded and `configs` has exited and did not succeed
configs_failed ==
    success(status) /\ hook.status # None /\ ~success(hook.status)

\* C1: within one top-level build the git fallback is taken at most once:
\* at most one clone is made, at most one repeat is nested, and the repeat's
\* source workspace is default_workspace(), a member of the search path, for
\* which the fallback condition is false.
C1_FallbackAtMostOnce ==
    /\ clones <= 1
    /\ Len(frames) <= 2
    /\ Len(frames) = 2 =>
        /\ frames[2].source_workspace = default_workspace(rust_path)
        /\ in_rust_path(rust_path, frames[2].source_workspace)
        /\ ~(pc \in FallbackPcs)

\* C1 witness: the repeat has passed the check of line 441 although its
\* workspace holds a git directory.
C1_Witness ==
    /\ Len(frames) = 2
    /\ clones = 1
    /\ pc = "detect"
    /\ frames[2].source_workspace \in git_dirs

\* C2: every call of build (or install) terminates, in Done or in a fatal
\* error, whatever the workspace, clone outcome, script and strategy.
C2_Terminates == <>Terminated

\* C2 witness: a call that went through the fallback and the package script
\* has terminated normally.
C2_Witness == pc = "Done" /\ clones = 1 /\ custom

\* C3: the fallback is taken iff the source workspace is not in the search
\* path and holds a git directory; otherwise no clone is attempted and build
\* goes straight on with the given source tree.
C3_FallbackIff ==
    LET pre == ~in_rust_path(rust_path, ws0) /\ ws0 \in git_dirs
        decided == /\ entry \in {"build", "install"}
                   /\ ~(pc = "build" /\ Len(frames) = 1)
    IN  /\ (pc \in FallbackPcs \/ clones > 0 \/ Len(frames) > 1) => pre
        /\ (pre /\ decided) => (pc \in FallbackPcs \/ clones > 0)
        /\ (~pre /\ decided) =>
                /\ Len(frames) = 1
                /\ clones = 0
                /\ git_result = "none"
                /\ ~read_only

\* C3 witness: a git directory inside the search path is built in place.
C3_Witness ==
    /\ ws0 \in git_dirs
    /\ in_rust_path(rust_path, ws0)
    /\ pc = "detect"
    /\ Len(frames) = 1

\* C4: when the script's `install` invocation exits without success the
\* build fails fatally: build does not go on, install records no input,
\* install_no_build is not called and nothing is copied.
C4_InstallFailureIsFatal ==
    install_failed =>
        /\ pc \in {"hook_result", "Failed"}
        /\ pc = "Failed" => err = "CustomBuildFailed"
        /\ ~custom
        /\ compiled = << >>
        /\ inputs = << >>
        /\ install_calls = 0
        /\ copied = << >>
        /\ installed = << >>

\* C4 witness: an install whose script's `install` invocation failed has
\* ended in the fatal error.
C4_Witness ==
    /\ entry = "install"
    /\ install_failed
    /\ pc = "Failed"
    /\ err = "CustomBuildFailed"

\* C5: run_custom starts `configs` only after `install` exited with success;
\* after an unsuccessful `install`, `configs` is never spawned and the
\* result is the empty flag list with the status of `install`.
C5_ConfigsOnlyAfterSuccess ==
    /\ (pc \in {"run_configs", "wait_configs", "blocked_configs",
                "status_configs"}
            \/ procs["configs"].handle # "unspawned") => success(status)
    /\ install_failed =>
        /\ procs["configs"].handle = "unspawned"
        /\ hook = [cfgs |-> << >>, status |-> status]

\* C5 witness: run_custom has returned after an unsuccessful `install`.
C5_Witness ==
    /\ pc = "hook_result"
    /\ install_failed
    /\ procs["install"].handle = "closed"

\* C6 as stated: when `install` succeeds and `configs` exits without
\* success the build is not aborted.
C6_ConfigsFailureNotFatal == configs_failed => pc # "Failed"

\* C6 as amended: run_custom returns the status of `configs`, and build
\* fails on it as it does for `install`: the build is aborted with the
\* custom-build error, is not marked custom and computes no flags.
C6_ConfigsFailureIsFatal ==
    configs_failed =>
        /\ pc \in {"hook_result", "Failed"}
        /\ pc = "Failed" => err = "CustomBuildFailed"
        /\ ~custom
        /\ cfgs = << >>
        /\ compiled = << >>
        /\ install_calls = 0

\* C6 witness: the build has failed on `configs` exiting with code 1 after
\* printing flags.
C6_Witness ==
    /\ pc = "Failed"
    /\ configs_failed
    /\ hook.status = exit_of(1, 0)
    /\ hook.cfgs # << >>

\* C7: the two children never run at the same time: `configs` is spawned
\* only after `install` has exited, its status is collected and its handle
\* dropped.
C7_NoOverlap ==
    /\ ~(running("install") /\ running("configs"))
    /\ procs["configs"].handle # "unspawned" =>
        /\ procs["install"].handle = "closed"
        /\ status # None

\* C7 witness: `configs` is running while the task is parked in its wait.
C7_Witness == running("configs") /\ pc = "blocked_configs"

\* C8: with a script present, build type MaybeCustom and a successful
\* script run, the build is custom: no crate is discovered or pushed and
\* pkg_src.build is not called, whatever the sources variant.
C8_CustomHandled ==
    /\ (script = "Some" /\ what.build_type = "MaybeCustom"
            /\ pc \in CfgsPcs \cup ReturnedPcs) => custom
    /\ custom =>
        /\ pc \in {"sources", "return", "Failed"} \cup ReturnedPcs
        /\ compiled = << >>
        /\ ~warned
        /\ \A i \in 1..Len(frames) : no_crates(frames[i])

\* C8 witness: a custom build of a JustOne strategy has returned.
C8_Witness ==
    /\ custom
    /\ what.sources.kind = "JustOne"
    /\ pc = "Done"
    /\ entry = "build"

\* C9 as stated: the flags build computes hold every flag of the script and
\* every configured flag, and no flag twice.
C9_UnionWithoutDuplicates ==
    pc \in CfgsPcs =>
        /\ Range(hook.cfgs) \cup Range(context_cfgs) \subseteq Range(cfgs)
        /\ \A i, j \in 1..Len(cfgs) : cfgs[i] = cfgs[j] => i = j

\* C9 as amended: the flags build computes are the script's flags followed
\* by the configured flags, in order and with every occurrence kept.
C9_Concatenation ==
    pc \in CfgsPcs =>
        /\ cfgs = hook.cfgs \o context_cfgs
        /\ Range(hook.cfgs) \cup Range(context_cfgs) \subseteq Range(cfgs)
        /\ Len(cfgs) = Len(hook.cfgs) + Len(context_cfgs)

\* C9 witness: the script printed a flag that is also configured, and the
\* computed flags hold it twice.
C9_Witness ==
    /\ pc = "sources"
    /\ custom
    /\ hook.cfgs # << >>
    /\ Range(hook.cfgs) \cap Range(context_cfgs) # {}
    /\ \E i, j \in 1..Len(cfgs) : i # j /\ cfgs[i] = cfgs[j]

\* C10 as stated: JustOne(p) with p present and of no role fails fatally,
\* so the command does not complete normally.
C10_UnresolvedTargetIsFatal == warned => ~(pc \in ReturnedPcs)

\* C10 as amended: JustOne(p) with p present and of no role only warns:
\* build returns normally, no failure comes from the path having no role,
\* and an enclosing install goes on.
C10_UnresolvedTargetWarns ==
    LET case == what.sources.kind = "JustOne" /\ no_role(what.sources.p)
    IN  /\ warned =>
            /\ case
            /\ ~custom
            /\ pc \in {"return", "Failed"} \cup ReturnedPcs
            /\ pc = "Failed" => (entry = "install" /\ err = "CopyFailed")
        /\ (case /\ ~custom /\ pc \in {"return"} \cup ReturnedPcs) => warned
        /\ (case /\ pc = "Failed") =>
            err \in {"git_checkout_failed", "PackageNotFound",
                     "CompileFailed", "SpawnFailed", "CustomBuildFailed",
                     "AssertFailed", "CopyFailed"}

\* C10 witness: a build of JustOne(tests/unit) has completed normally after
\* the warning.
C10_Witness ==
    /\ warned
    /\ what.sources = [kind |-> "JustOne", p |-> <<"tests", "unit">>]
    /\ entry = "build"
    /\ pc = "Done"

\* C11: with JustOne(p) where p matches none of the four role conventions,
\* no crate is pushed into libs, mains, tests or benchs of any PkgSrc and
\* pkg_src.build is never reached: the task is never at the compile step
\* and no compilation is recorded.
C11_NoRoleNothingBuilt ==
    (what.sources.kind = "JustOne" /\ no_role(what.sources.p)) =>
        /\ \A i \in 1..Len(frames) : no_crates(frames[i])
        /\ pc # "compile"
        /\ compiled = << >>

\* C11 witness: the strategy JustOne(tests/unit) has been handled by a
\* build that was not custom, and build has returned.
C11_Witness ==
    /\ what.sources = [kind |-> "JustOne", p |-> <<"tests", "unit">>]
    /\ no_role(what.sources.p)
    /\ ~custom
    /\ warned
    /\ pc \in ReturnedPcs

\* some child of run_custom has been spawned
script_run == \E c \in Cmds : procs[c].handle # "unspawned"

\* C12: when the clone does not return CheckedOutSources and no handler is
\* registered for git_checkout_failed, build fails fatally at the raise: no
\* repeat on default_workspace() is started, no script is looked for, built
\* or run, no crate is found and nothing is compiled or installed.
C12_UnhandledCheckoutFailureIsFatal ==
    raised = "unhandled" =>
        /\ pc = "Failed"
        /\ err = "git_checkout_failed"
        /\ git_result # "CheckedOutSources"
        /\ Len(frames) = 1
        /\ no_crates(frames[1])
        /\ script = "unknown"
        /\ ~script_built
        /\ ~script_run
        /\ compiled = << >>
        /\ install_calls = 0

\* C12 witness: an install has failed at the raise after a clone that did
\* not check out sources.
C12_Witness ==
    /\ raised = "unhandled"
    /\ clones = 1
    /\ git_result = "DirToUse"
    /\ entry = "install"
    /\ pc = "Failed"

\* C13 as stated: after a handled git_checkout_failed the repeat builds the
\* sources at the directory the handler supplied.
C13_RetryAtHandlerDirectory ==
    (raised = "handled" /\ Len(frames) >= 2) =>
        frames[2].source_workspace = handler_dir

\* C13 as amended: after a handled git_checkout_failed build resumes, drops
\* what the handler supplied and repeats on a fresh PkgSrc whose source and
\* destination workspace are default_workspace(), as after a successful
\* clone; out_dir is not made read-only.
C13_RetryAtDefaultWorkspace ==
    raised = "handled" =>
        /\ git_result # "CheckedOutSources"
        /\ ~read_only
        /\ handler_dir \in Workspaces
        /\ Len(frames) >= 2 =>
            /\ frames[2].source_workspace = default_workspace(rust_path)
            /\ frames[2].destination_workspace = default_workspace(rust_path)

\* C13 witness: the handler supplied a directory other than the default
\* workspace and the repeat is under way.
C13_Witness ==
    /\ raised = "handled"
    /\ handler_dir # default_workspace(rust_path)
    /\ Len(frames) = 2
    /\ pc = "detect"

\* out_dir is read-only exactly when the clone checked out sources and the
\* match of lines 447-451 has been passed
C14_MarkedIffCheckedOut ==
    /\ read_only <=> (git_result = "CheckedOutSources" /\ pc # "git_result")
    /\ (Len(frames) >= 2 /\ git_result = "CheckedOutSources") => read_only
    /\ git_result \in {"none", "DirToUse"} => ~read_only

\* C14: out_dir is made read-only exactly when the clone returned
\* CheckedOutSources, and before the repeat starts; it is never made
\* read-only when the clone failed; and no step of build or install makes
\* a read-only out_dir writable again.
C14_ReadOnlyOneWay ==
    /\ []C14_MarkedIffCheckedOut
    /\ [][read_only => read_only']_vars

\* C14 witness: an install that went through a successful clone has
\* finished, and out_dir is still read-only.
C14_Witness ==
    /\ read_only
    /\ git_result = "CheckedOutSources"
    /\ entry = "install"
    /\ pc = "Done"

\* what main_args returns agrees with how the task ended: nonzero after any
\* fatal failure, 0 only after a run that completed without failure
C15_ExitCodeTellsFailure ==
    exit_code # << >> =>
        /\ Terminated
        /\ pc = "Failed" => (exit_code[1] # 0 /\ err # "")
        /\ exit_code[1] = 0 => (pc = "Done" /\ err = "")

\* C15: main_args runs the command inside task::try: after any fatal
\* failure inside run (custom build failure, failed assertion, unknown or
\* unimplemented command, unhandled condition) main_args still returns, and
\* returns a nonzero code; it returns 0 only when run completed without
\* failure.
C15_BoundaryIsolatesFailure ==
    /\ []C15_ExitCodeTellsFailure
    /\ Terminated ~> (exit_code # << >>)

\* C15 witness: main_args has returned nonzero after the unhandled
\* git_checkout_failed condition failed the task.
C15_Witness ==
    /\ exit_code = <<COPY_FAILED_CODE>>
    /\ pc = "Failed"
    /\ err = "git_checkout_failed"

\* install has recorded no input, has not entered install_no_build and has
\* copied and returned nothing
nothing_installed ==
    /\ inputs = << >>
    /\ install_calls = 0
    /\ copied = << >>
    /\ installed = << >>

\* C16: install runs build to completion first: while build has not
\* returned nothing is installed, and when build fails nothing is installed
\* at all; inputs are recorded, install_no_build is entered and artifacts
\* are copied only after build has returned normally.
C16_BuildBeforeInstall ==
    /\ ~(pc \in ReturnedPcs \/ (pc = "Failed" /\ err = "CopyFailed")) =>
            nothing_installed
    /\ ~(err \in {"", "CopyFailed"}) => (pc = "Failed" /\ nothing_installed)
    /\ pc = "declare_inputs" => nothing_installed
    /\ pc = "install_no_build" => (install_calls = 0 /\ copied = << >>)
    /\ ~nothing_installed => entry = "install"

\* C16 witness: an install whose build compiled crates has recorded them
\* as inputs and copied an artifact.
C16_Witness ==
    /\ entry = "install"
    /\ compiled # << >>
    /\ inputs # << >>
    /\ install_calls = 1
    /\ copied # << >>
    /\ pc = "Done"

\* destinations of the copy steps of one call, in order
copies_of(c) ==
    LET cp == SelectSeq(c.steps, LAMBDA e : e.op = "copy")
    IN  [i \in 1..Len(cp) |-> cp[i].name]

\* destinations of the discover_output steps of one call, in order
discovered_outputs_of(c) ==
    LET out == SelectSeq(c.steps, LAMBDA e : e.op = "discover_output")
    IN  [i \in 1..Len(out) |-> out[i].name]

\* the copies of the first n calls, in order
RECURSIVE copies_upto(_)
copies_upto(n) ==
    IF n = 0 THEN << >> ELSE copies_upto(n - 1) \o copies_of(calls[n])

\* C17: when install_no_build is called again and finds the built
\* artifacts and the build inputs as the call before it found them, the
\* second call copies nothing and returns the list the first returned;
\* the copies made are those of the calls' copy steps.
C17_SecondCallCopiesNothing ==
    /\ copied = copies_upto(Len(calls))
    /\ \A k \in 1..(Len(calls) - 1) :
        calls[k + 1].seen = calls[k].seen =>
            /\ calls[k + 1].hit
            /\ ~calls[k + 1].failed
            /\ copies_of(calls[k + 1]) = << >>
            /\ calls[k + 1].result = calls[k].result

\* C17 witness: the first call copied both artifacts; a source file that is
\* no build input was rewritten; the second call has returned.
C17_Witness ==
    /\ Len(calls) = 2
    /\ calls[1].result = <<TargetExe, TargetLib>>
    /\ copies_of(calls[1]) = <<TargetExe, TargetLib>>
    /\ calls[2].seen = calls[1].seen
    /\ Len(inputs) = 2
    /\ touches = 1
    /\ pc = "Done"

\* C18: a call whose body ran to its end returns exactly the destinations
\* it copied to and discovered as outputs: the executable's if the built
\* executable exists, then the library's if the built library exists, and
\* nothing else; with only an executable, the one path bin/<name>.  The
\* files returned exist, and install gets that list.
C18_ReturnsWhatItCopied ==
    /\ \A k \in 1..Len(calls) :
        LET c == calls[k] IN
        (~c.hit /\ ~c.failed) =>
            /\ c.result = copies_of(c)
            /\ c.result = discovered_outputs_of(c)
            /\ c.result = (IF c.exe THEN <<TargetExe>> ELSE << >>)
                            \o (IF c.lib THEN <<TargetLib>> ELSE << >>)
            /\ (c.exe /\ ~c.lib) => c.result = <<TargetExe>>
    /\ (pc = "Done" /\ calls # << >>) =>
        /\ installed = calls[Len(calls)].result
        /\ \A i \in 1..Len(installed) : file_exists(files, installed[i])

\* C18 witness: an install found only a built executable and returned the
\* one path bin/pkg.
C18_Witness ==
    /\ entry = "install"
    /\ pc = "Done"
    /\ Len(calls) = 1
    /\ calls[1].exe /\ ~calls[1].lib /\ ~calls[1].hit
    /\ installed = <<TargetExe>>
    /\ copied = <<TargetExe>>

\* C19: in every call, each built artifact that exists is declared as a
\* "binary" input before the body starts; every build input is discovered
\* as a "file" input inside the body, before any copy; and no copy comes
\* before a declaration or a discovery of an input.
C19_DeclareBeforeCopy ==
    \A k \in 1..Len(calls) :
        LET c == calls[k]
            st == c.steps
            at(op) == {i \in 1..Len(st) : st[i].op = op}
            ins == build_inputs(inputs)
        IN  /\ \A a \in {BuiltExe, BuiltLib} :
                (IF a = BuiltExe THEN c.exe ELSE c.lib) <=>
                    \E j \in at("declare_input") :
                        st[j].kind = "binary" /\ st[j].name = a
            /\ \A j \in at("declare_input"), e \in at("exec") : j < e
            /\ ~c.hit =>
                /\ at("exec") # {}
                /\ \A i \in 1..Len(ins) :
                    \E j \in at("discover_input") :
                        /\ st[j].kind = "file" /\ st[j].name = ins[i]
                        /\ \A e \in at("exec") : e < j
                        /\ \A m \in at("copy") : j < m
            /\ \A m \in at("copy"),
                  j \in at("declare_input") \cup at("discover_input") : j < m

\* C19 witness: an install with two crates as build inputs has declared,
\* discovered and copied both artifacts.
C19_Witness ==
    /\ entry = "install"
    /\ pc = "Done"
    /\ Len(inputs) >= 2
    /\ Len(calls) = 1
    /\ calls[1].exe /\ calls[1].lib
    /\ copies_of(calls[1]) = <<TargetExe, TargetLib>>

\* wait has returned only with an exit status recorded, and the task is
\* parked only while none is recorded
C20_WaitStates ==
    \A c \in Cmds :
        /\ pc = at_status(c) =>
            (procs[c].exit_status # None /\ ~procs[c].to_wake)
        /\ pc = at_blocked(c) =>
            (procs[c].exit_status = None /\ procs[c].to_wake)
        /\ procs[c].to_wake => pc = at_blocked(c)

\* a call of wait on a child whose exit status is recorded returns in that
\* step, leaving the handle as it is; a parked task leaves its wait only
\* in the step of on_exit that records the status
C20_WaitSteps ==
    \A c \in Cmds :
        /\ (pc = at_wait(c) /\ procs[c].exit_status # None) =>
            (pc' = at_status(c) /\ procs' = procs)
        /\ (pc = at_wait(c) /\ procs[c].exit_status = None) =>
            pc' # at_status(c)
        /\ (pc = at_blocked(c) /\ pc' # pc) =>
            /\ pc' = at_status(c)
            /\ procs[c].exit_status = None
            /\ procs'[c].exit_status # None

\* C20: Process::wait is synchronous: when the exit callback has already
\* run it returns the recorded status at once, without parking the task;
\* otherwise the task is descheduled and wait returns only after on_exit
\* has recorded the status; wait never returns while exit_status is None.
C20_WaitIsSynchronous == []C20_WaitStates /\ [][C20_WaitSteps]_vars

\* C20 witness: the `configs` child exited before the task called wait on
\* it, and wait is about to return with the status of a child killed by a
\* signal.
C20_Witness ==
    /\ pc = at_wait("configs")
    /\ procs["configs"].exit_status = exit_of(0, 9)
    /\ ~procs["configs"].to_wake

\* the crate files in the unit lists of a source tree
units(src) ==
    Range(src.libs) \cup Range(src.mains) \cup Range(src.tests)
        \cup Range(src.benchs)

\* C21: every unit path handed to the compiler was found to exist under
\* start_dir, and a JustOne path that does not exist is fatal, never
\* skipped: the build fails at the assert before any unit is pushed or
\* compiled.
C21_MissingUnitAborts ==
    /\ pc = "compile" => units(pkg_src) \subseteq existing
    /\ \A k \in DOMAIN compiled : units(compiled[k]) \subseteq existing
    /\ (/\ what.sources.kind = "JustOne"
        /\ ~custom
        /\ pc \in {"compile", "return"} \cup ReturnedPcs)
            => what.sources.p \in existing
    /\ err = "AssertFailed" =>
        /\ pc = "Failed"
        /\ what.sources.kind = "JustOne"
        /\ ~(what.sources.p \in existing)
        /\ \A i \in DOMAIN frames : no_crates(frames[i])
        /\ compiled = << >>

\* C21 witness: build was given ExactlyOne(p) for a p that is not under
\* start_dir, and failed at the assert.
C21_Witness ==
    /\ err = "AssertFailed"
    /\ pc = "Failed"
    /\ what.sources.kind = "JustOne"
    /\ what.sources.p = <<"lib">>
    /\ existing = {}

\* no package script was found, or one was found under build type Inferred
script_unused ==
    \/ script = "None"
    \/ script = "Some" /\ what.build_type = "Inferred"

\* positions of the script's preparation, of run_custom and of its result
ScriptPcs ==
    {"build_script", "run_custom", "run_configs", "hook_result"}
        \cup {at_wait(c) : c \in Cmds} \cup {at_blocked(c) : c \in Cmds}
        \cup {at_status(c) : c \in Cmds}

\* a script that is not used is neither compiled nor run and adds no flag
C22_ScriptUntouched ==
    script_unused =>
        /\ ~script_built
        /\ \A c \in Cmds : procs[c] = NoProc
        /\ status = None /\ hook = NoHook /\ output = << >>
        /\ ~custom
        /\ ~(pc \in ScriptPcs)
        /\ pc \in CfgsPcs => cfgs = context_cfgs
        /\ \A k \in DOMAIN compiled : compiled[k].cfgs = context_cfgs

\* the step that finds the script unused goes to unit discovery, and unit
\* discovery follows the sources variant
C22_FallsThrough ==
    /\ (pc = "detect" /\ script_unused') => pc' = "sources"
    /\ (pc = "sources" /\ script_unused /\ pc' # pc) =>
        /\ what.sources.kind = "Everything" =>
            (pc' = "compile" /\ units(pkg_src') = existing')
        /\ what.sources.kind = "Tests" =>
            /\ pc' = "compile"
            /\ units(pkg_src') = existing'
            /\ \A u \in units(pkg_src') : is_test(u)
        /\ what.sources.kind = "JustOne" =>
            /\ units(pkg_src') \subseteq {what.sources.p}
            /\ pc' = "compile" <=> units(pkg_src') # {}

\* C22: with a build script present under build type Inferred, or with no
\* build script, the script is neither compiled nor run (no preparation,
\* no child process), it contributes no flags, and build falls through to
\* unit discovery according to the sources variant.
C22_InferredSkipsScript == []C22_ScriptUntouched /\ [][C22_FallsThrough]_vars

\* C22 witness: a package script was present under Inferred, and build
\* compiled the test crate it discovered with the configured flags only.
C22_Witness ==
    /\ script = "Some"
    /\ what.build_type = "Inferred"
    /\ what.sources.kind = "Tests"
    /\ context_cfgs # << >>
    /\ Len(compiled) = 1
    /\ compiled[1].tests = << <<"test">> >>
    /\ compiled[1].cfgs = context_cfgs

\* positions of build before run_custom is called
BeforeRunPcs ==
    {"build", "detect", "build_script", "run_custom"} \cup FallbackPcs

\* how often each of the script's commands has been run, by position
C23_RunCounts ==
    /\ \A c \in Cmds : spawns[c] <= 1
    /\ spawns["configs"] <= spawns["install"]
    /\ pc \in BeforeRunPcs => \A c \in Cmds : spawns[c] = 0
    /\ (pc = "hook_result" \/ custom) =>
        (spawns["install"] = 1 /\ spawns["configs"] <= 1)
    /\ (/\ script = "Some"
        /\ what.build_type = "MaybeCustom"
        /\ pc \in {"return"} \cup ReturnedPcs) =>
            (custom /\ spawns["install"] = 1 /\ spawns["configs"] = 1)
    /\ pkg_exe # "none" => script_built

\* a command of the script is run only by run_custom, one child at a time
C23_RunSteps ==
    \A c \in Cmds :
        spawns'[c] # spawns[c] =>
            /\ spawns'[c] = spawns[c] + 1
            /\ pc = (IF c = "install" THEN "run_custom" ELSE "run_configs")
            /\ pkg_exe # "none"

\* C23: within one top-level build of a package with a build script under
\* MaybeCustom, the script's `install` command is run exactly once and its
\* `configs` command at most once, also when the build went through the
\* git fallback and whether or not the preparation that compiles the
\* script was a cache hit.
C23_ScriptRunOnce == []C23_RunCounts /\ [][C23_RunSteps]_vars

\* C23 witness: the preparation of the script was a cache hit in a build
\* repeated after the git fallback, and `install` has been run.
C23_Witness ==
    /\ Len(frames) = 2
    /\ pkg_exe = "cached"
    /\ pc = "run_configs"
    /\ spawns["install"] = 1
    /\ spawns["configs"] = 0

\* the errors that stop build before it compiles or installs anything
EarlyErrors == {"git_checkout_failed", "PackageNotFound"}

\* what a failed task leaves behind, and what it has not done, by the
\* step that failed
C24_LeftAsFailed ==
    pc = "Failed" =>
        /\ err # ""
        /\ read_only <=> (clones = 1 /\ git_result = "CheckedOutSources")
        /\ spawns["install"] > 0 => script_built
        /\ err \in EarlyErrors =>
            (script = "unknown" /\ ~script_built /\ compiled = << >>)
        /\ err # "CopyFailed" => nothing_installed
        /\ err = "CopyFailed" =>
            /\ Len(calls) = install_calls
            /\ copied = copies_upto(Len(calls))
            /\ \A i \in DOMAIN copied : file_exists(files, copied[i])
            /\ installed = << >>

\* no step undoes a side effect, and a failed task takes no further step
C24_NoRollback ==
    /\ (pc = "Failed" \/ err # "") =>
        UNCHANGED <<args, pc, err, frames, fallback_vars, script_vars,
                    build_vars, install_vars, caller_vars>>
    /\ pc' = "Failed" =>
        /\ read_only => read_only'
        /\ script_built => script_built'
        /\ clones' >= clones
        /\ \A c \in Cmds : spawns'[c] >= spawns[c]
        /\ compiled' = compiled
        /\ Len(copied') >= Len(copied)
        /\ SubSeq(copied', 1, Len(copied)) = copied

\* C24: the first fatal error ends the pipeline and nothing is rolled
\* back: after it no later step of build or install runs, and the side
\* effects made so far (the cloned read-only directory, the script's
\* executable, the files already copied) stay as they were.
C24_FailureLeavesEffects == []C24_LeftAsFailed /\ [][C24_NoRollback]_vars

\* C24 witness: an install that went through the git fallback and ran a
\* package script failed at its second copy; the clone is still
\* read-only, the script's executable is there and the first copy stays.
C24_Witness ==
    /\ pc = "Failed"
    /\ err = "CopyFailed"
    /\ read_only
    /\ script_built
    /\ copied = <<TargetExe>>
    /\ file_exists(files, TargetExe)
    /\ exit_code = <<COPY_FAILED_CODE>>

\* the last element of a non-empty sequence
Last(q) == q[Len(q)]

\* C25: on_exit records ExitStatus(exit_status) when term_signal is 0 and
\* ExitSignal(n) for any nonzero term_signal n, whatever exit_status is;
\* the status wait returns is the one on_exit recorded, and it is the one
\* run_custom goes on with.
C25_StatusFromSignalOrCode ==
    /\ \A c \in Cmds :
        /\ (procs[c].handle = "live" /\ exit_args[c] # << >>) =>
            LET code == Last(exit_args[c])[1]
                sig == Last(exit_args[c])[2]
            IN  /\ sig = 0 => procs[c].exit_status =
                                [kind |-> "ExitStatus", n |-> code]
                /\ sig # 0 => procs[c].exit_status =
                                [kind |-> "ExitSignal", n |-> sig]
        /\ procs[c].exit_status # None => exit_args[c] # << >>
        /\ (procs[c].handle = "live" /\ returned[c] # << >>) =>
            Last(returned[c]) = procs[c].exit_status
        /\ returned[c] # << >> =>
            /\ exit_args[c] # << >>
            /\ Last(exit_args[c])[2] = 0 => Last(returned[c]) =
                [kind |-> "ExitStatus", n |-> Last(exit_args[c])[1]]
            /\ Last(exit_args[c])[2] # 0 => Last(returned[c]) =
                [kind |-> "ExitSignal", n |-> Last(exit_args[c])[2]]
        /\ pc = at_status(c) => returned[c] # << >>
    /\ status # None => status = Last(returned["install"])
    /\ hook.status # None =>
        hook.status \in
            {Last(returned[c]) : c \in {d \in Cmds : returned[d] # << >>}}

\* C25 witness: libuv reported the `configs` child with exit status 1 and
\* terminating signal 9, and wait has returned ExitSignal(9).
C25_Witness ==
    /\ pc = at_status("configs")
    /\ exit_args["configs"] = << <<1, 9>> >>
    /\ returned["configs"] = << [kind |-> "ExitSignal", n |-> 9] >>

\* the exit status of a handle and the calls of its exit callback
C30_StatusStates ==
    \A c \in Cmds :
        /\ Len(exit_args[c]) <= 1
        /\ procs[c].handle = "live" =>
            (procs[c].exit_status = None <=> exit_args[c] = << >>)
        /\ procs[c].handle = "unspawned" =>
            (procs[c].exit_status = None /\ exit_args[c] = << >>)
        /\ \A i, j \in DOMAIN returned[c] : returned[c][i] = returned[c][j]

\* the exit callback finds no status recorded, and a recorded status stays
\* as long as the handle lives
C30_StatusSteps ==
    \A c \in Cmds :
        /\ exit_args'[c] # exit_args[c] =>
            /\ procs[c].exit_status = None
            /\ procs'[c].exit_status # None
        /\ (/\ procs[c].handle = "live"
            /\ procs'[c].handle = "live"
            /\ procs[c].exit_status # None) =>
                procs'[c].exit_status = procs[c].exit_status

\* C30: a process's exit_status is write-once: it is None from spawn until
\* the exit callback fires, on_exit runs at most once per process, and once
\* set the status never changes while the handle lives; repeated wait
\* calls return the same status.
C30_ExitStatusWriteOnce == []C30_StatusStates /\ [][C30_StatusSteps]_vars

\* C30 witness: wait was called twice on the handle of a child killed by a
\* signal, and returned ExitSignal(9) both times.
C30_Witness ==
    /\ entry = "process"
    /\ pc = "held"
    /\ procs["install"].handle = "live"
    /\ exit_args["install"] = << <<0, 9>> >>
    /\ returned["install"] =
        << [kind |-> "ExitSignal", n |-> 9],
           [kind |-> "ExitSignal", n |-> 9] >>

\* the names of the "file" items among a list of items, in order
file_names(its) ==
    LET fl == SelectSeq(its, LAMBDA it : it.kind = "file")
    IN  [i \in 1..Len(fl) |-> fl[i].name]

\* C27: the declared-inputs list install returns holds exactly one
\* ("file", start_dir/<unit file>) pair per unit of the source tree's
\* lists as build left them, libraries first, then executables, tests and
\* benchmarks, and install_no_build gets the same paths in the same order
\* as its transitive build inputs.
C27_OneInputPerUnit ==
    (entry = "install" /\ (pc = "install_no_build" \/ install_calls > 0)) =>
        LET src == frames[1]
            dir == <<src.source_workspace, "src", "pkg">>
            n == [r \in 0..4 |->
                    CASE r = 0 -> 0
                      [] r = 1 -> Len(src.libs)
                      [] r = 2 -> Len(src.libs) + Len(src.mains)
                      [] r = 3 -> Len(src.libs) + Len(src.mains)
                                    + Len(src.tests)
                      [] r = 4 -> Len(src.libs) + Len(src.mains)
                                    + Len(src.tests) + Len(src.benchs)]
        IN  /\ Len(inputs) = n[4]
            /\ \A i \in DOMAIN inputs : inputs[i].kind = "file"
            /\ \A i \in DOMAIN src.libs :
                inputs[n[0] + i].path = dir \o src.libs[i]
            /\ \A i \in DOMAIN src.mains :
                inputs[n[1] + i].path = dir \o src.mains[i]
            /\ \A i \in DOMAIN src.tests :
                inputs[n[2] + i].path = dir \o src.tests[i]
            /\ \A i \in DOMAIN src.benchs :
                inputs[n[3] + i].path = dir \o src.benchs[i]
            /\ \A k \in DOMAIN calls :
                file_names(calls[k].seen) =
                    [i \in 1..Len(inputs) |-> inputs[i].path]

\* C27 witness: install of a package with a library, an executable and a
\* test crate has passed three inputs on to install_no_build.
C27_Witness ==
    /\ entry = "install"
    /\ pc = "Done"
    /\ Len(calls) = 1
    /\ inputs = << [kind |-> "file", path |-> <<"A", "src", "pkg", "lib">>],
                   [kind |-> "file", path |-> <<"A", "src", "pkg", "main">>],
                   [kind |-> "file", path |-> <<"A", "src", "pkg", "test">>] >>

\* the artifacts install_no_build reads and the files it writes
Artifacts == {BuiltExe, BuiltLib, TargetExe, TargetLib}

\* the steps of a call that hand a fingerprint to the preparation
fingerprinted(c) ==
    {c.steps[i] : i \in {j \in DOMAIN c.steps : c.steps[j].op \in
        {"declare_input", "discover_input", "discover_output"}}}

\* C28: install_no_build fingerprints the built artifacts and the
\* installed files by modification time only, and every transitive build
\* input the caller supplied by content hash and modification time; no
\* input gets the weaker fingerprint and no artifact the stronger one.
C28_FingerprintByKind ==
    \A k \in DOMAIN calls :
        LET c == calls[k]
            ins == build_inputs(inputs)
        IN  /\ \A e \in fingerprinted(c) :
                /\ e.name \in Artifacts \cup Range(ins)
                /\ e.name \in Artifacts =>
                    (e.kind = "binary" /\ e.fp.how = "date")
                /\ e.name \in Range(ins) =>
                    (e.kind = "file" /\ e.fp.how = "hash+date")
                /\ e.op \in {"declare_input", "discover_output"} =>
                    e.name \in Artifacts
            /\ ~c.hit =>
                \A i \in DOMAIN ins :
                    \E e \in fingerprinted(c) :
                        /\ e.op = "discover_input"
                        /\ e.name = ins[i]
                        /\ e.fp.how = "hash+date"
            /\ (db.valid /\ k = Len(calls)) =>
                \A i \in DOMAIN db.discovered :
                    db.discovered[i].fp.how =
                        (IF db.discovered[i].name \in Artifacts
                            THEN "date" ELSE "hash+date")

\* C28 witness: one call declared and discovered the built executable by
\* its date, discovered a source file by hash and date, and discovered the
\* installed executable by its date.
C28_Witness ==
    /\ Len(calls) = 1
    /\ \E d, i, o \in fingerprinted(calls[1]) :
        /\ d.op = "declare_input" /\ d.name = BuiltExe /\ d.fp.how = "date"
        /\ i.op = "discover_input" /\ i.name \in SourceFiles
        /\ i.fp.how = "hash+date"
        /\ o.op = "discover_output" /\ o.name = TargetExe /\ o.fp.how = "date"

\* the workspaces of the search path that hold the package
containing == {w \in Range(rust_path) : w \in parents}

\* the place of a workspace in the search path
place(w) == CHOOSE k \in 1..Len(rust_path) : rust_path[k] = w

\* C26: build_args called with a package id builds the package once in
\* every workspace of the search path that holds it, in search-path
\* order, and returns the destination computed for the last of them; the
\* destinations of the earlier ones are dropped.
C26_LastWorkspaceWins ==
    (entry \in {"build_args", "test"} /\ cmd_args = "pkgid") =>
        /\ \A i \in DOMAIN built : built[i].source_workspace \in containing
        /\ \A i, j \in DOMAIN built :
            i < j => place(built[i].source_workspace)
                        < place(built[j].source_workspace)
        /\ \A i \in DOMAIN built :
            built[i].destination_workspace =
                (IF path_hack /\ cwd = "elsewhere"
                    THEN CwdWorkspace ELSE built[i].source_workspace)
        /\ pc = "build_args" => built = << >>
        /\ args_result # Pending =>
            /\ Len(built) = Cardinality(containing)
            /\ args_result.kind = "Some"
            /\ args_result.ws =
                (IF built = << >> THEN rust_path[1]
                                  ELSE Last(built).destination_workspace)

\* C26 witness: the package is in both workspaces of the search path;
\* build_args built it in A, then in B, and returned B.
C26_Witness ==
    /\ cmd_args = "pkgid"
    /\ rust_path = <<"A", "B">>
    /\ Len(built) = 2
    /\ built[1].destination_workspace = "A"
    /\ built[2].destination_workspace = "B"
    /\ Len(compiled) = 2
    /\ args_result = SomeResult("B")

\* positions inside CtxMethods::test
TestPcs ==
    {"test", "run_test", at_wait("test"), at_blocked("test"),
     at_status("test")}

\* the test executable has been looked for or run
testing == pc \in TestPcs \/ test_exec # "unknown" \/ spawns["test"] > 0

\* what the `test` command has done, by what build_args returned
C29_TestStates ==
    entry = "test" =>
        /\ what.build_type = "MaybeCustom" /\ what.sources.kind = "Tests"
        /\ \A k \in DOMAIN compiled :
            compiled[k].libs = << >> /\ compiled[k].mains = << >>
                /\ compiled[k].benchs = << >>
        /\ testing => args_result.kind = "Some"
        /\ spawns["test"] <= 1
        /\ spawns["test"] > 0 => test_exec = "Some"
        /\ args_result = NoResult =>
            /\ ~testing
            /\ err = ""
            /\ pc = "Done" => reported = <<"Testing failed">>
        /\ (pc \in {"Done", "Failed"} /\ returned["test"] # << >>) =>
            (~success(Last(returned["test"]))
                <=> (pc = "Failed" /\ err = "TestsFailed"))
        /\ err = "TestsFailed" => returned["test"] # << >>

\* the test executable is looked for and run only after build_args has
\* returned Some
C29_TestSteps ==
    entry = "test" =>
        /\ (pc # "test" /\ pc' = "test") =>
            (pc = "build_args_returned" /\ args_result.kind = "Some")
        /\ spawns'["test"] # spawns["test"] =>
            (pc = "run_test" /\ args_result.kind = "Some" /\ todo = << >>)

\* C29: the `test` command first runs build_args with (MaybeCustom,
\* Tests) and runs the built test executable only after build_args has
\* returned Some; an unsuccessful exit of the test executable is fatal;
\* when build_args returns None the test executable is never run and
\* only an error is reported.
C29_TestAfterBuild == []C29_TestStates /\ [][C29_TestSteps]_vars

\* C29 witness: build_args built the test crate and returned Some, the
\* test executable was run, was killed by a signal, and the task failed.
C29_Witness ==
    /\ entry = "test"
    /\ Len(compiled) = 1
    /\ compiled[1].tests # << >>
    /\ args_result.kind = "Some"
    /\ spawns["test"] = 1
    /\ returned["test"] = << [kind |-> "ExitSignal", n |-> 9] >>
    /\ pc = "Failed"
    /\ err = "TestsFailed"

\* build has taken the git fallback
fell_back == clones > 0 \/ pc \in FallbackPcs

\* the caller's PkgSrc in a build that takes the git fallback, and the
\* PkgSrc of the repeat
C33_CallerTree ==
    /\ fell_back =>
        /\ no_crates(frames[1])
        /\ ~in_rust_path(rust_path, frames[1].source_workspace)
        /\ frames[1].destination_workspace = frames[1].source_workspace
    /\ Len(frames) > 1 =>
        /\ Len(frames) = 2
        /\ frames[2].source_workspace = rust_path[1]
        /\ frames[2].destination_workspace = rust_path[1]
        /\ \A k \in DOMAIN compiled : units(compiled[k]) = units(frames[2])
    /\ (fell_back /\ entry = "install") => inputs = << >>

\* no step of such a build changes the caller's PkgSrc, and the repeat
\* starts on a PkgSrc with empty lists
C33_CallerTreeSteps ==
    /\ (fell_back \/ fell_back') => frames'[1] = frames[1]
    /\ (Len(frames) = 1 /\ Len(frames') = 2) =>
        (pc = "recurse" /\ no_crates(frames'[2]))

\* C33: when build takes the git fallback, the repeat runs on a fresh
\* PkgSrc at default_workspace() and the caller's PkgSrc is left as it
\* was: its four lists, its source workspace and its destination
\* workspace are the same after build returns as before, so the install
\* around it declares no crate of the repeat as an input.
C33_FallbackLeavesCallerTree ==
    []C33_CallerTree /\ [][C33_CallerTreeSteps]_vars

\* C33 witness: an install whose build took the git fallback compiled
\* crates in the repeat, declared no input and went through
\* install_no_build.
C33_Witness ==
    /\ entry = "install"
    /\ clones = 1
    /\ pc = "Done"
    /\ Len(compiled) = 1
    /\ units(compiled[1]) # {}
    /\ no_crates(frames[1])
    /\ inputs = << >>
    /\ install_calls = 1

\* the build inside an install compiled nothing: a script handled it, or
\* the one path asked for has no role
built_nothing == custom \/ warned

\* where an install stands once its build has returned, and what the
\* calls of install_no_build did
C35_InstallStates ==
    /\ (entry = "install" /\ pc = "Done") => install_calls >= 1
    /\ install_calls = Len(calls)
    /\ (entry = "install" /\ pc \in ReturnedPcs /\ built_nothing) =>
        /\ no_crates(frames[1])
        /\ compiled = << >>
        /\ inputs = << >>
    /\ \A k \in 1..Len(calls) :
        LET c == calls[k] IN
        (~c.hit /\ ~c.failed) =>
            copies_of(c) = install_outputs(c.exe, c.lib)

\* the steps of install after build: always on to the declared inputs and
\* to install_no_build
C35_InstallSteps ==
    /\ (entry = "install" /\ pc = "return") => pc' = "declare_inputs"
    /\ pc = "declare_inputs" => pc' = "install_no_build"
    /\ pc = "install_no_build" =>
        /\ install_calls' = install_calls + 1
        /\ Len(calls') = Len(calls) + 1

\* C35: install calls install_no_build whenever build returns normally,
\* also when build compiled nothing: after a build handled by the package
\* script, and after a JustOne build whose path has no role, the lists of
\* the PkgSrc are empty, no input is declared, and install_no_build still
\* runs and copies the artifacts that exist in the build workspace.
C35_InstallAfterEmptyBuild ==
    []C35_InstallStates /\ [][C35_InstallSteps]_vars

\* C35 witness: an install whose build was handled by the package script
\* declared no input, and install_no_build copied an executable that was
\* in the build workspace.
C35_Witness ==
    /\ entry = "install"
    /\ pc = "Done"
    /\ custom
    /\ compiled = << >>
    /\ inputs = << >>
    /\ install_calls = 1
    /\ calls[1].exe
    /\ TargetExe \in Range(copied)

\* build_args was given a package id that no workspace of the search path
\* holds
nowhere == cmd_args = "pkgid" /\ containing = {}

\* what such a call of build_args has done, and where `test` stands
C34_NowhereStates ==
    nowhere =>
        /\ built = << >>
        /\ frames = << >>
        /\ compiled = << >>
        /\ \A c \in Cmds \ {"test"} : spawns[c] = 0
        /\ ~script_built
        /\ pc \notin {"build", "sources", "compile", "return"}
        /\ args_result # Pending => args_result = SomeResult(rust_path[1])
        /\ (entry = "test" /\ Terminated) =>
            /\ test_exec # "unknown"
            /\ "Testing failed" \notin Range(reported)

\* once build_args has returned, `test` goes on to look for the test
\* executable
C34_NowhereSteps ==
    (nowhere /\ entry = "test") =>
        /\ pc = "each_workspace" => pc' = "build_args_returned"
        /\ pc = "build_args_returned" => pc' = "test"
        /\ pc = "test" => test_exec' # "unknown"

C32_DropStates ==
    /\ err # "AssertFailed"
    /\ \A c \in Cmds :
        procs[c].handle = "closed" =>
            (~procs[c].to_wake /\ pc # at_blocked(c))

\* the step that drops a handle starts with to_wake None and with the
\* owner outside wait
C32_DropSteps ==
    \A c \in Cmds :
        (procs[c].handle = "live" /\ procs'[c].handle # "live") =>
            /\ ~procs[c].to_wake
            /\ pc = "held"
            /\ procs'[c].handle = "closed"

\* C32: a Process handle is never dropped while a task is blocked in wait
\* on it: at drop to_wake is None, so the assert of Drop holds, for every
\* sequence of spawn, wait, kill, on_exit and drop.
C32_NoDropWhileBlocked == []C32_DropStates /\ [][C32_DropSteps]_vars

\* C32 witness: a handle was spawned, waited on, the child was sent a
\* signal and exited, and the handle was dropped.
C32_Witness ==
    /\ entry = "process"
    /\ pc = "Done"
    /\ procs["configs"].handle = "closed"
    /\ returned["configs"] # << >>
    /\ exit_args["configs"] = << <<0, 9>> >>
    /\ killed = <<"Ok">>

\* to_wake holds a task only while no exit status is recorded, and a task
\* parked in wait is always the one held in to_wake
C31_WakeStates ==
    \A c \in Cmds :
        /\ procs[c].to_wake =>
            (procs[c].exit_status = None /\ procs[c].handle = "live")
        /\ pc = at_blocked(c) => procs[c].to_wake
        /\ procs[c].exit_status # None => pc # at_blocked(c)

\* on_exit takes a parked task out of to_wake and resumes it behind its
\* wait; with no task parked it leaves to_wake None, and a wait that comes
\* after it returns in its own step
C31_WakeSteps ==
    \A c \in Cmds :
        /\ exit_args'[c] # exit_args[c] =>
            /\ ~procs'[c].to_wake
            /\ IF procs[c].to_wake
                  THEN /\ pc = at_blocked(c)
                       /\ pc' = at_status(c)
                       /\ returned'[c] =
                            Append(returned[c], procs'[c].exit_status)
                  ELSE pc' = pc /\ returned' = returned
        /\ (pc = at_wait(c) /\ exit_args[c] # << >>) =>
            /\ pc' = at_status(c)
            /\ ~procs'[c].to_wake
            /\ returned'[c] = Append(returned[c], procs[c].exit_status)

\* a task parked in wait gets behind its wait
C31_WaiterReturns ==
    \A c \in Cmds : (pc = at_blocked(c)) ~> (pc = at_status(c))

\* C31: no wakeup is lost between wait and on_exit, in whatever order
\* they come: when the task parks in wait before the child exits, on_exit
\* takes it out of to_wake and resumes it, so the waiter returns in the
\* end; when on_exit comes first, to_wake stays None and a later wait does
\* not park.  to_wake is Some only while exit_status is None.
C31_NoLostWakeup ==
    []C31_WakeStates /\ [][C31_WakeSteps]_vars /\ C31_WaiterReturns

\* C31 witness: two calls of wait on the handle have returned the status
\* the one call of on_exit recorded, the second of them without parking.
C31_Witness ==
    /\ entry = "process"
    /\ pc = at_status("test")
    /\ Len(exit_args["test"]) = 1
    /\ Len(returned["test"]) = 2
    /\ ~procs["test"].to_wake

====
